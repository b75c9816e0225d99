--------------------------- MODULE Handlers_proofs ---------------------------
(***************************************************************************)
(* Proofs about the components that work in request handlers: the profile  *)
(* cache, the likes, the rate limiter, the sessions and the requests and   *)
(* comments of a task, for any goroutines and bounds; and, last, the types  *)
(* of all of them, side by side.                                           *)
(***************************************************************************)
EXTENDS MCHandlers, FiniteSetTheorems, SequenceTheorems, TLAPS

-----------------------------------------------------------------------------
(* Counting goroutines.                                                     *)

LEMMA ProcsCounted ==
  ASSUME NEW S \in SUBSET Procs
  PROVE  /\ Cardinality(S) \in Nat /\ Cardinality(Procs) \in Nat
         /\ Cardinality(S) <= Cardinality(Procs)
         /\ \A T \in SUBSET S : Cardinality(T) \in Nat /\ Cardinality(T) <= Cardinality(S)
         /\ \A p \in S : Cardinality(S \ {p}) = Cardinality(S) - 1
<1>1. IsFiniteSet(Procs)
  BY HandlersAssumption
<1>2. IsFiniteSet(S) /\ Cardinality(S) <= Cardinality(Procs)
  BY <1>1, FS_Subset
<1>3. Cardinality(S) \in Nat /\ Cardinality(Procs) \in Nat
  BY <1>1, <1>2, FS_CardinalityType
<1>4. ASSUME NEW T \in SUBSET S
      PROVE  Cardinality(T) \in Nat /\ Cardinality(T) <= Cardinality(S)
  BY <1>2, FS_Subset, FS_CardinalityType
<1>5. ASSUME NEW p \in S
      PROVE  Cardinality(S \ {p}) = Cardinality(S) - 1
  BY <1>2, FS_RemoveElement
<1> QED
  BY <1>2, <1>3, <1>4, <1>5

LEMMA Shrinks ==
  ASSUME NEW S \in SUBSET Procs, NEW T \in SUBSET S, NEW k \in Nat,
         k + Cardinality(S) <= Cardinality(Procs)
  PROVE  k + Cardinality(T) <= Cardinality(Procs)
<1>1. /\ Cardinality(S) \in Nat /\ Cardinality(T) \in Nat /\ Cardinality(Procs) \in Nat
      /\ Cardinality(T) <= Cardinality(S)
  BY ProcsCounted
<1> QED
  BY <1>1

-----------------------------------------------------------------------------
(* The profile cache.                                                       *)

\* A copy that is as new as published, or was late; what p has read is as new
\* as what was published when it began, until it is written into the cache.
ProfileIInv ==
  /\ at \in [Procs -> {"idle"} \cup ProfileStages]
  /\ nickname \in Nat /\ published \in Nat /\ cached \in Nat
  /\ value \in [Procs -> Nat] /\ floor \in [Procs -> Nat] /\ DOMAIN old = Procs
  /\ published <= nickname /\ cached <= nickname
  /\ cached = NotCached \/ filledLate \/ cached >= published
  /\ \A p \in Procs :
       /\ floor[p] <= published /\ value[p] <= nickname
       /\ at[p] = "fillProfile" => value[p] >= floor[p]
  /\ ProfileSettled

LEMMA ProfileStepKept ==
  ASSUME ProfileIInv, ProfileNext
  PROVE  ProfileIInv'
<1>1. ASSUME NEW p \in Procs, GetProfile(p)
      PROVE  ProfileIInv'
  <2> USE <1>1 DEF GetProfile, Trip
  <2>1. \A q \in Procs \ {p} :
          at'[q] = at[q] /\ old'[q] = old[q] /\ value'[q] = value[q] /\ floor'[q] = floor[q]
    BY DEF ProfileIInv
  <2>2. old'[p] = filledLate /\ value'[p] = cached /\ floor'[p] = published
    BY DEF ProfileIInv
  <2>3. at'[p] = "profile" => filledLate \/ cached >= published
    BY DEF ProfileIInv
  <2>4. at'[p] = "profile" => old'[p] \/ value'[p] >= floor'[p]
    BY <2>2, <2>3, Zenon
  <2>5. ProfileSettled'
    BY <2>1, <2>4, Zenon DEF ProfileIInv, ProfileSettled
  <2> QED
    BY <2>5 DEF ProfileIInv, ProfileStages, NotCached
<1>2. ASSUME NEW p \in Procs, SelectProfile(p)
      PROVE  ProfileIInv'
  BY <1>2 DEF ProfileIInv, ProfileSettled, SelectProfile, Trip, ProfileStages, NotCached
<1>3. ASSUME NEW p \in Procs, FillProfile(p)
      PROVE  ProfileIInv'
  <2> USE <1>3 DEF FillProfile, Trip
  <2>1. cached' = value[p] /\ published' = published /\ filledLate' = (value[p] < published)
    OBVIOUS
  <2>2. value[p] < published \/ value[p] >= published
    BY DEF ProfileIInv
  <2>3. filledLate' \/ cached' >= published'
    BY <2>1, <2>2, Zenon
  <2>4. ProfileSettled'
    BY DEF ProfileIInv, ProfileSettled, profileRequest
  <2> QED
    BY <2>3, <2>4 DEF ProfileIInv, ProfileStages, profileRequest
<1>4. ASSUME NEW p \in Procs, ProfileAnswered(p) \/ ProfileFails(p)
      PROVE  ProfileIInv'
  BY <1>4 DEF ProfileIInv, ProfileSettled, ProfileAnswered, ProfileFails, ProfileForgets,
              Ends, ProfileStages, NotCached
<1>5. ASSUME NEW p \in Procs, UpdateProfile(p) \/ UpdateNickname(p)
      PROVE  ProfileIInv'
  BY <1>5 DEF ProfileIInv, ProfileSettled, UpdateProfile, UpdateNickname, Trip,
              ProfileStages, NotCached, profileVars, profileRequest
<1>6. ASSUME NEW p \in Procs, DeleteProfileCache(p)
      PROVE  ProfileIInv'
  BY <1>6 DEF ProfileIInv, ProfileSettled, DeleteProfileCache, ProfileForgets, Ends,
              ProfileStages, NotCached
<1>7. CASE ProfileExpires
  BY <1>7 DEF ProfileIInv, ProfileSettled, ProfileExpires, profileRequest, NotCached
<1> QED
  BY <1>1, <1>2, <1>3, <1>4, <1>5, <1>6, <1>7 DEF ProfileNext

LEMMA ProfileStarts ==
  ASSUME HandlersInit, ProfileInit
  PROVE  ProfileIInv
BY DEF HandlersInit, ProfileInit, ProfileIInv, ProfileSettled, ProfileStages, NotCached

LEMMA ProfileKept ==
  ASSUME ProfileIInv, [ProfileNext]_<<at, profileVars>>
  PROVE  ProfileIInv'
<1>1. CASE UNCHANGED <<at, profileVars>>
  BY <1>1 DEF ProfileIInv, ProfileSettled, profileVars, profileRequest, NotCached
<1> QED
  BY <1>1, ProfileStepKept

\* GetProfile answers nothing older than what was published before it began,
\* unless the copy it reads was written across an UpdateProfile's DEL
\* (profile.go), for any goroutines and edits.
THEOREM ProfileReadsSettled == ProfileSpec => []ProfileSettled
<1>1. HandlersInit /\ ProfileInit => ProfileIInv
  BY ProfileStarts
<1>2. ProfileIInv /\ [ProfileNext]_<<at, profileVars>> => ProfileIInv'
  BY ProfileKept
<1>3. ProfileIInv => ProfileSettled
  BY DEF ProfileIInv
<1> QED
  BY <1>1, <1>2, <1>3, PTL DEF ProfileSpec

-----------------------------------------------------------------------------
(* The likes.                                                               *)

LEMMA LikesCounted ==
  ASSUME NEW S \in SUBSET Users
  PROVE  /\ Cardinality(S) \in Nat
         /\ \A u \in S : Cardinality(S) > 0
         /\ \A u \in Users \ S : Cardinality(S) < Cardinality(Users)
<1>1. IsFiniteSet(Users)
  BY HandlersAssumption
<1>2. IsFiniteSet(S) /\ Cardinality(S) <= Cardinality(Users)
      /\ (Cardinality(Users) = Cardinality(S) => Users = S)
  BY <1>1, FS_Subset
<1>3. Cardinality(S) \in Nat /\ Cardinality(Users) \in Nat
  BY <1>1, <1>2, FS_CardinalityType
<1>4. Cardinality(S) = 0 => S = {}
  BY <1>2, FS_EmptySet
<1> QED
  BY <1>2, <1>3, <1>4

\* Between its two commands a request knows whether its user likes the task,
\* unless it has been crossed.
LikesIInv ==
  /\ at \in [Procs -> {"idle"} \cup LikeStages]
  /\ likes \subseteq Users /\ liker \in [Procs -> Users] /\ count \in [Procs -> Nat]
  /\ DOMAIN mine = Procs /\ DOMAIN crossed = Procs
  /\ \A p \in Procs :
       at[p] = "card" => crossed[p] \/ (mine[p] <=> liker[p] \in likes)
  /\ LikeAnswers

LEMMA LikesStepKept ==
  ASSUME LikesIInv, LikesNext
  PROVE  LikesIInv'
<1>1. ASSUME NEW p \in Procs, NEW u \in Users, LikeRequest(p, u)
      PROVE  LikesIInv'
  BY <1>1 DEF LikesIInv, LikeAnswers, LikeRequest, Trip, LikeStages, answers
<1>2. ASSUME NEW p \in Procs, LikeAnswered(p) \/ LikeFails(p)
      PROVE  LikesIInv'
  BY <1>2 DEF LikesIInv, LikeAnswers, LikeAnswered, LikeFails, LikeForgets, Ends, LikeStages
<1>3. ASSUME NEW p \in Procs, Card(p)
      PROVE  LikesIInv'
  BY <1>3, LikesCounted DEF LikesIInv, LikeAnswers, Card, Trip, LikeStages
<1>4. ASSUME NEW p \in Procs, NEW s \in SUBSET Users, NEW b \in BOOLEAN,
             FirstCommand(p, s, b),
             \A u \in Users \ {liker[p]} : u \in s <=> u \in likes,
             NEW to \in {"card", "answer"}, at' = [at EXCEPT ![p] = to],
             to = "card" => (b <=> liker[p] \in s),
             count' \in [Procs -> Nat],
             \A q \in Procs \ {p} : count'[q] = count[q],
             to = "answer" => b /\ count'[p] > 0
      PROVE  LikesIInv'
  <2> USE DEF LikesIInv, FirstCommand
  <2>1. at' \in [Procs -> {"idle"} \cup LikeStages] /\ DOMAIN mine' = Procs
        /\ DOMAIN crossed' = Procs /\ liker' = liker /\ likes' = s
    BY <1>4 DEF LikeStages
  <2>2. mine'[p] = b /\ at'[p] = to
    BY <1>4
  <2>3. ASSUME NEW q \in Procs, q # p
        PROVE  /\ mine'[q] = mine[q] /\ at'[q] = at[q]
               /\ crossed'[q] <=> crossed[q] \/ (at[q] = "card" /\ liker[q] = liker[p] /\ s # likes)
    BY <1>4, <2>3
  <2>4. ASSUME NEW q \in Procs, at'[q] = "card"
        PROVE  crossed'[q] \/ (mine'[q] <=> liker'[q] \in likes')
    <3>1. CASE q = p
      BY <1>4, <2>1, <2>2, <2>4, <3>1
    <3>2. CASE q # p /\ liker[q] = liker[p]
      BY <1>4, <2>1, <2>3, <2>4, <3>2
    <3>3. CASE q # p /\ liker[q] # liker[p]
      BY <1>4, <2>1, <2>3, <2>4, <3>3
    <3> QED
      BY <3>1, <3>2, <3>3
  <2>5. LikeAnswers'
    BY <1>4, <2>1, <2>2, <2>3 DEF LikeAnswers
  <2> QED
    BY <1>4, <2>1, <2>4, <2>5
<1>5. ASSUME NEW p \in Procs, Like(p)
      PROVE  LikesIInv'
  <2>1. likes \cup {liker[p]} \in SUBSET Users /\ liker[p] \in likes \cup {liker[p]}
    BY DEF LikesIInv
  <2>2. likes' = likes \cup {liker[p]}
    BY <1>5 DEF Like, FirstCommand
  <2>3. Cardinality(likes') \in Nat /\ Cardinality(likes') > 0
    BY <2>1, <2>2, LikesCounted
  <2> QED
    BY <1>4, <1>5, <2>1, <2>3 DEF Like, Trip, LikesIInv
<1>6. ASSUME NEW p \in Procs, Unlike(p)
      PROVE  LikesIInv'
  <2>1. (likes \ {liker[p]}) \in SUBSET Users /\ (FALSE) \in BOOLEAN
        /\ ((FALSE) <=> liker[p] \in (likes \ {liker[p]}))
    BY <1>6 DEF LikesIInv
  <2>2. \A u \in Users \ {liker[p]} : u \in (likes \ {liker[p]}) <=> u \in likes
    OBVIOUS
  <2>3. FirstCommand(p, (likes \ {liker[p]}), FALSE) /\ at' = [at EXCEPT ![p] = "card"]
    BY <1>6 DEF Unlike, Trip
  <2>4. count' = count /\ count \in [Procs -> Nat]
    BY <1>6 DEF Unlike, LikesIInv
  <2> QED
    BY <1>4, <2>1, <2>2, <2>3, <2>4
<1>7. ASSUME NEW p \in Procs, Status(p)
      PROVE  LikesIInv'
  <2>1. likes \in SUBSET Users /\ (liker[p] \in likes) \in BOOLEAN
        /\ ((liker[p] \in likes) <=> liker[p] \in likes)
    BY <1>7 DEF LikesIInv
  <2>2. \A u \in Users \ {liker[p]} : u \in likes <=> u \in likes
    OBVIOUS
  <2>3. FirstCommand(p, likes, liker[p] \in likes) /\ at' = [at EXCEPT ![p] = "card"]
    BY <1>7 DEF Status, Trip
  <2>4. count' = count /\ count \in [Procs -> Nat]
    BY <1>7 DEF Status, LikesIInv
  <2> QED
    BY <1>4, <2>1, <2>2, <2>3, <2>4
<1> QED
  BY <1>1, <1>2, <1>3, <1>5, <1>6, <1>7 DEF LikesNext

LEMMA LikesStart ==
  ASSUME HandlersInit, LikesInit
  PROVE  LikesIInv
BY DEF HandlersInit, LikesInit, LikesIInv, LikeAnswers, LikeStages

LEMMA LikesKept ==
  ASSUME LikesIInv, [LikesNext]_<<at, likeVars>>
  PROVE  LikesIInv'
<1>1. CASE UNCHANGED <<at, likeVars>>
  BY <1>1 DEF LikesIInv, LikeAnswers, likeVars, answers
<1> QED
  BY <1>1, LikesStepKept

\* The two halves of an answer about a task's likes fit together, unless the
\* same user's other request came between them (like.go), for any users.
THEOREM LikesAnswered == LikesSpec => []LikeAnswers
<1>1. HandlersInit /\ LikesInit => LikesIInv
  BY LikesStart
<1>2. LikesIInv /\ [LikesNext]_<<at, likeVars>> => LikesIInv'
  BY LikesKept
<1>3. LikesIInv => LikeAnswers
  BY DEF LikesIInv
<1> QED
  BY <1>1, <1>2, <1>3, PTL DEF LikesSpec
-----------------------------------------------------------------------------
(* The sessions: the black list.                                            *)

\* A token that was logged out is listed until its own life is over.
BlacklistIInv ==
  /\ at \in [Procs -> {"idle"} \cup SessionStages]
  /\ now \in Tokens /\ issued \subseteq 0..now /\ left \subseteq issued
  /\ listed \in [Tokens -> Nat] /\ token \in [Procs -> Nat] /\ DOMAIN wasLeft = Procs
  /\ \A t \in Tokens : listed[t] # NotListed => listed[t] >= t + Life
  /\ \A t \in left : listed[t] # NotListed \/ now >= t + Life
  /\ \A p \in Procs : wasLeft[p] => token[p] \in left
  /\ LoggedOutStaysOut

LEMMA BlacklistStepKept ==
  ASSUME BlacklistIInv, SessionNext
  PROVE  BlacklistIInv'
<1> USE SessionAssumption
<1> USE DEF Tokens, NotListed
<1>1. ASSUME NEW p \in Procs,
             Register(p) \/ InsertUser(p) \/ Login(p) \/ VerifyCaptcha(p) \/ CheckPassword(p)
               \/ DeleteCaptcha(p)
      PROVE  BlacklistIInv'
  <2>1. /\ UNCHANGED <<now, issued, listed, token, left, wasLeft>>
        /\ \E to \in ({"idle"} \cup SessionStages) \ {"serve"} :
             at' = [at EXCEPT ![p] = to]
    BY <1>1 DEF Register, InsertUser, Login, VerifyCaptcha, CheckPassword, DeleteCaptcha,
                Trip, SessionStages, LoginStages, sessionVars, sessionData, sessionRequest
  <2> QED
    BY <2>1 DEF BlacklistIInv, LoggedOutStaysOut, SessionStages
<1>2. ASSUME NEW p \in Procs, GenerateToken(p)
      PROVE  BlacklistIInv'
  BY <1>2 DEF GenerateToken, BlacklistIInv, LoggedOutStaysOut, Trip
<1>3. ASSUME NEW p \in Procs, Authorize(p)
      PROVE  BlacklistIInv'
  <2>1. PICK t \in issued :
          /\ Trip(p, "idle", "blacklist")
          /\ token' = [token EXCEPT ![p] = t]
          /\ wasLeft' = [wasLeft EXCEPT ![p] = t \in left]
          /\ UNCHANGED <<now, sessionData, verified, left, races>>
    BY <1>3 DEF Authorize
  <2>2. wasLeft'[p] <=> t \in left
    BY <2>1 DEF BlacklistIInv
  <2>3. \A q \in Procs : wasLeft'[q] => token'[q] \in left'
    BY <2>1, <2>2 DEF BlacklistIInv
  <2> QED
    BY <2>1, <2>3 DEF BlacklistIInv, LoggedOutStaysOut, Trip, SessionStages, sessionData
<1>4. ASSUME NEW p \in Procs, Answered(p)
      PROVE  BlacklistIInv'
  BY <1>4 DEF Answered, BlacklistIInv, LoggedOutStaysOut, Ends, sessionData
<1>5. ASSUME NEW p \in Procs, NotBlacklisted(p)
      PROVE  BlacklistIInv'
  BY <1>5 DEF NotBlacklisted, BlacklistIInv, LoggedOutStaysOut, Trip, SessionStages,
              sessionVars, sessionData, sessionRequest
<1>6. CASE GenerateCaptcha \/ CaptchaExpires
  BY <1>6 DEF GenerateCaptcha, CaptchaExpires, BlacklistIInv, LoggedOutStaysOut,
              sessionRequest
<1>7. CASE Logout
  <2>1. PICK t \in issued : /\ listed' = [listed EXCEPT ![t] = now + BlacklistLife]
                            /\ left' = left \cup {t}
    BY <1>7 DEF Logout, ListedUntil
  <2>2. UNCHANGED <<at, now, issued, token, wasLeft>>
    BY <1>7 DEF Logout, sessionRequest
  <2>3. t \in Tokens /\ t <= now /\ listed'[t] >= t + Life /\ listed'[t] # 0
    BY <2>1 DEF BlacklistIInv
  <2>4. \A q \in Procs : wasLeft'[q] => token'[q] \in left'
    BY <2>1, <2>2, Zenon DEF BlacklistIInv
  <2> QED
    BY <2>1, <2>2, <2>3, <2>4 DEF BlacklistIInv, LoggedOutStaysOut
<1>8. ASSUME NEW t \in Tokens, EntryExpires(t)
      PROVE  BlacklistIInv'
  BY <1>8 DEF EntryExpires, BlacklistIInv, LoggedOutStaysOut, sessionRequest
<1>9. CASE Tick
  BY <1>9 DEF Tick, BlacklistIInv, LoggedOutStaysOut, sessionVars, sessionData, sessionRequest
<1> QED
  BY <1>1, <1>2, <1>3, <1>4, <1>5, <1>6, <1>7, <1>8, <1>9
     DEF SessionNext, Blacklisted, Served, SessionFails

LEMMA BlacklistStarts ==
  ASSUME HandlersInit, SessionInit
  PROVE  BlacklistIInv
BY SessionAssumption DEF HandlersInit, SessionInit, BlacklistIInv, LoggedOutStaysOut,
   SessionStages, Tokens, NotListed

LEMMA BlacklistKept ==
  ASSUME BlacklistIInv, [SessionNext]_<<at, now, sessionVars>>
  PROVE  BlacklistIInv'
<1>1. CASE UNCHANGED <<at, now, sessionVars>>
  BY <1>1 DEF BlacklistIInv, LoggedOutStaysOut, Tokens, NotListed,
              sessionVars, sessionData, sessionRequest
<1> QED
  BY <1>1, BlacklistStepKept

\* A token that was logged out before a request began does not let it through
\* while the token lives (token.go, middleware/auth.go), for any lives of tokens
\* and entries of which the entry's is not the shorter.
THEOREM LoggedOutRefused == SessionSpec => []LoggedOutStaysOut
<1>1. HandlersInit /\ SessionInit => BlacklistIInv
  BY BlacklistStarts
<1>2. BlacklistIInv /\ [SessionNext]_<<at, now, sessionVars>> => BlacklistIInv'
  BY BlacklistKept
<1>3. BlacklistIInv => LoggedOutStaysOut
  BY DEF BlacklistIInv
<1> QED
  BY <1>1, <1>2, <1>3, PTL DEF SessionSpec
-----------------------------------------------------------------------------
(* The sessions: captchas and accounts.                                     *)

Inserting   == {p \in Procs : at[p] = "insert"}
Verified(n) == {p \in Procs : verified[p] = n}

\* Nobody verifies a captcha that is spent.  What was counted, and who may still
\* add to it, are no more than the goroutines, or the founders, together.
RaceIInv ==
  /\ at \in [Procs -> {"idle"} \cup SessionStages]
  /\ accounts \in Nat /\ captcha \in Nat /\ captchas \in 0..MaxCaptchas
  /\ captcha <= captchas
  /\ verified \in [Procs -> 0..captchas] /\ uses \in [1..MaxCaptchas -> Nat]
  /\ \A p \in Procs : at[p] \in {"password", "delete", "token"} => verified[p] # NoCaptcha
  /\ spent \subseteq 1..captchas /\ captcha \notin spent /\ latecomers = {}
  /\ founders \in Nat /\ (accounts > 0 => accounts + Cardinality(Inserting) <= founders)
  /\ \A n \in 1..MaxCaptchas :
       /\ uses[n] + Cardinality(Verified(n)) <= Cardinality(Procs)
       /\ n > captchas => uses[n] = 0
       /\ n = captcha =>
            uses[n] = 0 /\ \A p \in Procs : ~(verified[p] = n /\ at[p] = "token")

\* A step that counts nothing and lets nobody else count.
LEMMA RaceQuiet ==
  ASSUME RaceIInv,
         at' \in [Procs -> {"idle"} \cup SessionStages],
         UNCHANGED <<accounts, uses, latecomers, founders>>,
         spent' = spent \/ (captcha' = NoCaptcha /\ spent' \subseteq 1..captchas),
         captcha' \in Nat, captchas' \in captchas..MaxCaptchas, captcha' <= captchas',
         verified' \in [Procs -> 0..captchas'],
         \A p \in Procs :
           /\ at'[p] \in {"password", "delete", "token"} => verified'[p] # NoCaptcha
           /\ verified'[p] # NoCaptcha => verified'[p] = verified[p]
           /\ at'[p] = "insert" => at[p] = "insert"
           /\ at'[p] = "token" => at[p] = "token" \/ captcha' = NoCaptcha,
         captcha' \in {NoCaptcha, captcha} \/ captcha' > captchas
  PROVE  RaceIInv'
<1> USE DEF NoCaptcha
<1>1. Inserting' \in SUBSET Inserting /\ Inserting \in SUBSET Procs
  BY DEF Inserting
<1>2. accounts' > 0 => accounts' + Cardinality(Inserting') <= founders'
  <2> SUFFICES ASSUME accounts > 0
               PROVE  accounts + Cardinality(Inserting') <= founders
    OBVIOUS
  <2>1. accounts + Cardinality(Inserting) <= founders /\ accounts \in Nat /\ founders \in Nat
    BY DEF RaceIInv
  <2>2. /\ Cardinality(Inserting) \in Nat /\ Cardinality(Inserting') \in Nat
        /\ Cardinality(Inserting') <= Cardinality(Inserting)
    BY <1>1, ProcsCounted
  <2> QED
    BY <2>1, <2>2
<1>5. spent' \subseteq 1..captchas' /\ captcha' \notin spent'
  <2>1. /\ spent \subseteq 1..captchas /\ captcha \notin spent
        /\ captchas \in Nat /\ captchas' \in Nat /\ captchas <= captchas' /\ captcha' \in Nat
    BY SessionAssumption DEF RaceIInv
  <2>2. spent' \subseteq 1..captchas
    BY <2>1
  <2>3. \A n \in spent' : n \in Nat /\ 1 <= n /\ n <= captchas
    BY <2>1, <2>2
  <2>4. spent' \subseteq 1..captchas'
    BY <2>1, <2>3
  <2>5. captcha' \notin spent'
    <3>1. CASE captcha' = NoCaptcha
      BY <2>3, <3>1
    <3>2. CASE captcha' # NoCaptcha /\ captcha' = captcha
      BY <2>1, <3>2
    <3>3. CASE captcha' > captchas
      BY <2>1, <2>3, <3>3
    <3> QED
      BY <3>1, <3>2, <3>3
  <2> QED
    BY <2>4, <2>5
<1>3. ASSUME NEW n \in 1..MaxCaptchas
      PROVE  uses'[n] + Cardinality(Verified(n)') <= Cardinality(Procs)
  <2>1. Verified(n)' \in SUBSET Verified(n) /\ Verified(n) \in SUBSET Procs
    BY DEF Verified
  <2>2. uses'[n] = uses[n] /\ uses[n] \in Nat
    BY DEF RaceIInv
  <2> QED
    BY <2>1, <2>2, Shrinks DEF RaceIInv
<1>4. ASSUME NEW n \in 1..MaxCaptchas
      PROVE  /\ n > captchas' => uses'[n] = 0
             /\ n = captcha' =>
                  uses'[n] = 0 /\ \A p \in Procs : ~(verified'[p] = n /\ at'[p] = "token")
  BY SessionAssumption DEF RaceIInv
<1> QED
  BY <1>2, <1>3, <1>4, <1>5, SessionAssumption DEF RaceIInv

LEMMA RaceStepKept ==
  ASSUME RaceIInv, SessionNext
  PROVE  RaceIInv'
<1> USE SessionAssumption
<1> USE DEF NoCaptcha
<1>1. ASSUME NEW p \in Procs, Register(p)
      PROVE  RaceIInv'
  <2>1. UNCHANGED <<accounts, captcha, captchas, verified, races>> /\ accounts = 0
        /\ at[p] = "idle" /\ at' = [at EXCEPT ![p] = "insert"]
    BY <1>1 DEF Register, Trip, sessionVars, sessionData, sessionRequest
  <2>3. ~ accounts' > 0
    BY <2>1
  <2>4. \A n : Verified(n)' = Verified(n)
    BY <2>1 DEF Verified
  <2> QED
    BY <2>1, <2>3, <2>4 DEF RaceIInv, SessionStages, LoginStages, races
<1>2. ASSUME NEW p \in Procs, InsertUser(p)
      PROVE  RaceIInv'
  <2>1. /\ UNCHANGED <<captcha, captchas, verified, uses, spent, latecomers>>
        /\ accounts' = accounts + 1
        /\ founders' = IF accounts = 0 THEN Cardinality(Inserting) ELSE founders
        /\ at[p] = "insert" /\ at' = [at EXCEPT ![p] = "idle"]
    BY <1>2 DEF InsertUser, Trip, sessionRequest, Inserting
  <2>2. Inserting' = Inserting \ {p} /\ p \in Inserting /\ Inserting \in SUBSET Procs
    BY <2>1 DEF Inserting, RaceIInv
  <2>5. /\ Cardinality(Inserting) \in Nat /\ Cardinality(Inserting') = Cardinality(Inserting) - 1
        /\ accounts \in Nat /\ founders \in Nat
        /\ accounts > 0 => accounts + Cardinality(Inserting) <= founders
    BY <2>2, ProcsCounted DEF RaceIInv
  <2>3. founders' \in Nat /\ accounts' + Cardinality(Inserting') <= founders'
    BY <2>1, <2>5
  <2>4. \A n : Verified(n)' = Verified(n)
    BY <2>1 DEF Verified
  <2> QED
    BY <2>1, <2>3, <2>4 DEF RaceIInv, SessionStages, LoginStages
<1>3. ASSUME NEW p \in Procs, VerifyCaptcha(p)
      PROVE  RaceIInv'
  <2>1. /\ UNCHANGED <<accounts, captcha, captchas, uses, spent, founders>>
        /\ captcha # NoCaptcha
        /\ at[p] = "captcha" /\ at' = [at EXCEPT ![p] = "password"]
        /\ verified' = [verified EXCEPT ![p] = captcha]
        /\ latecomers' = latecomers \ {p}
    BY <1>3 DEF VerifyCaptcha, Trip, sessionData, RaceIInv
  <2>2. Inserting' = Inserting
    BY <2>1 DEF Inserting, RaceIInv
  <2>3. ASSUME NEW n \in 1..MaxCaptchas
        PROVE  uses'[n] + Cardinality(Verified(n)') <= Cardinality(Procs)
    <3>1. CASE n = captcha
      <4>1. uses'[n] = 0 /\ Verified(n)' \in SUBSET Procs
        BY <2>1, <3>1 DEF RaceIInv, Verified
      <4> QED
        BY <4>1, ProcsCounted
    <3>2. CASE n # captcha
      <4>1. Verified(n)' \in SUBSET Verified(n) /\ Verified(n) \in SUBSET Procs
        BY <2>1, <3>2 DEF Verified, RaceIInv
      <4>2. uses'[n] = uses[n] /\ uses[n] \in Nat
        BY <2>1 DEF RaceIInv
      <4> QED
        BY <4>1, <4>2, Shrinks DEF RaceIInv
    <3> QED
      BY <3>1, <3>2
  <2> QED
    BY <2>1, <2>2, <2>3 DEF RaceIInv, SessionStages, LoginStages
<1>4. ASSUME NEW p \in Procs, GenerateToken(p)
      PROVE  RaceIInv'
  <2>1. /\ UNCHANGED <<accounts, captcha, captchas, spent, latecomers, founders>>
        /\ at[p] = "token" /\ at' = [at EXCEPT ![p] = "idle"]
        /\ uses' = [uses EXCEPT ![verified[p]] = @ + 1]
        /\ verified' = [verified EXCEPT ![p] = NoCaptcha]
        /\ verified[p] \in 1..MaxCaptchas
    BY <1>4 DEF GenerateToken, Trip, RaceIInv
  <2>2. Inserting' = Inserting
    BY <2>1 DEF Inserting, RaceIInv
  <2>3. ASSUME NEW n \in 1..MaxCaptchas
        PROVE  uses'[n] + Cardinality(Verified(n)') <= Cardinality(Procs)
    <3>0. Verified(n) \in SUBSET Procs
      BY DEF Verified
    <3>1. CASE n = verified[p]
      <4>1. uses'[n] = uses[n] + 1 /\ Verified(n)' = Verified(n) \ {p} /\ p \in Verified(n)
        BY <2>1, <3>1 DEF RaceIInv, Verified
      <4>2. /\ Cardinality(Verified(n)) \in Nat /\ Cardinality(Procs) \in Nat
            /\ Cardinality(Verified(n)') = Cardinality(Verified(n)) - 1
        BY <3>0, <4>1, ProcsCounted
      <4>3. uses[n] \in Nat /\ uses[n] + Cardinality(Verified(n)) <= Cardinality(Procs)
        BY DEF RaceIInv
      <4> QED
        BY <4>1, <4>2, <4>3
    <3>2. CASE n # verified[p]
      <4>1. uses'[n] = uses[n] /\ Verified(n)' = Verified(n)
        BY <2>1, <3>2 DEF RaceIInv, Verified
      <4> QED
        BY <4>1 DEF RaceIInv
    <3> QED
      BY <3>1, <3>2
  <2> QED
    BY <2>1, <2>2, <2>3 DEF RaceIInv
<1>5. ASSUME NEW p \in Procs, DeleteCaptcha(p)
      PROVE  RaceIInv'
  <2>1. /\ at[p] = "delete" /\ at' = [at EXCEPT ![p] = "token"] /\ captcha' = NoCaptcha
        /\ spent' = spent \cup {verified[p]}
        /\ UNCHANGED <<accounts, captchas, verified, uses, latecomers, founders>>
    BY <1>5 DEF DeleteCaptcha, Trip, sessionRequest
  <2>2. spent' \subseteq 1..captchas
    <3>1. verified[p] \in 0..captchas /\ verified[p] # 0 /\ captchas \in Nat
      BY <2>1 DEF RaceIInv
    <3>2. verified[p] \in 1..captchas
      BY <3>1
    <3> QED
      BY <2>1, <3>2 DEF RaceIInv
  <2> QED
    BY <2>1, <2>2, RaceQuiet DEF RaceIInv, SessionStages, LoginStages
<1>6. ASSUME NEW p \in Procs, Login(p) \/ CheckPassword(p) \/ NotBlacklisted(p)
      PROVE  RaceIInv'
  <2>1. CASE Login(p)
    BY <2>1, RaceQuiet
       DEF Login, Trip, RaceIInv, SessionStages, LoginStages, sessionVars, sessionData,
           sessionRequest, races
  <2>2. CASE CheckPassword(p)
    BY <2>2, RaceQuiet
       DEF CheckPassword, Trip, RaceIInv, SessionStages, LoginStages, sessionVars, sessionData,
           sessionRequest, races
  <2>3. CASE NotBlacklisted(p)
    BY <2>3, RaceQuiet
       DEF NotBlacklisted, Trip, RaceIInv, SessionStages, LoginStages, sessionVars, sessionData,
           sessionRequest, races
  <2> QED
    BY <1>6, <2>1, <2>2, <2>3
<1>7. ASSUME NEW p \in Procs, Authorize(p)
      PROVE  RaceIInv'
  BY <1>7, RaceQuiet DEF Authorize, Trip, RaceIInv, SessionStages, LoginStages, sessionData, races
<1>8. ASSUME NEW p \in Procs, Answered(p)
      PROVE  RaceIInv'
  BY <1>8, RaceQuiet DEF Answered, Ends, RaceIInv, SessionStages, LoginStages, sessionData, races
<1>9. CASE GenerateCaptcha \/ CaptchaExpires
  BY <1>9, RaceQuiet DEF GenerateCaptcha, CaptchaExpires, RaceIInv, sessionRequest, races
<1>10. CASE Logout \/ Tick \/ \E t \in Tokens : EntryExpires(t)
  <2>1. UNCHANGED <<at, accounts, captcha, captchas, verified, races>>
    BY <1>10 DEF Logout, Tick, EntryExpires, sessionVars, sessionData, sessionRequest
  <2> QED
    BY <2>1, RaceQuiet DEF RaceIInv, races
<1>11. \/ \E p \in Procs :
            \/ Register(p) \/ InsertUser(p) \/ VerifyCaptcha(p) \/ GenerateToken(p)
            \/ DeleteCaptcha(p) \/ Login(p) \/ CheckPassword(p) \/ NotBlacklisted(p)
            \/ Authorize(p) \/ Answered(p)
       \/ GenerateCaptcha \/ CaptchaExpires
       \/ Logout \/ Tick \/ \E t \in Tokens : EntryExpires(t)
  BY Zenon DEF SessionNext, Blacklisted, Served, SessionFails
<1> QED
  BY Zenon, <1>1, <1>2, <1>3, <1>4, <1>5, <1>6, <1>7, <1>8, <1>9, <1>10, <1>11

LEMMA RaceStarts ==
  ASSUME HandlersInit, SessionInit
  PROVE  RaceIInv
<1>1. Inserting = {} /\ \A n \in 1..MaxCaptchas : Verified(n) = {}
  BY DEF HandlersInit, SessionInit, Inserting, Verified, NoCaptcha
<1>2. Cardinality({}) = 0 /\ Cardinality(Procs) \in Nat
  BY FS_EmptySet, ProcsCounted
<1>3. \A n \in 1..MaxCaptchas :
        uses[n] + Cardinality(Verified(n)) <= Cardinality(Procs)
  <2>1. \A n \in 1..MaxCaptchas : uses[n] = 0
    BY DEF SessionInit
  <2>2. \A n \in 1..MaxCaptchas : Cardinality(Verified(n)) = 0
    BY <1>1, <1>2
  <2>3. Cardinality(Procs) >= 0
    BY <1>2
  <2> QED
    BY <1>2, <2>1, <2>2, <2>3
<1>4. \A p \in Procs : at[p] = "idle"
  BY DEF HandlersInit
<1> QED
  BY <1>3, <1>4, SessionAssumption
     DEF HandlersInit, SessionInit, RaceIInv, SessionStages, NoCaptcha

LEMMA RaceKept ==
  ASSUME RaceIInv, [SessionNext]_<<at, now, sessionVars>>
  PROVE  RaceIInv'
<1>1. CASE UNCHANGED <<at, now, sessionVars>>
  BY <1>1 DEF RaceIInv, Inserting, Verified, sessionVars, sessionData, sessionRequest, races
<1> QED
  BY <1>1, RaceStepKept

\* Nobody who verifies a captcha after a login with it came to its DEL succeeds, and
\* a name gets no more rows than requests raced for it (auth.go), for any numbers of
\* goroutines, captchas and ticks.
THEOREM RacersBounded == SessionSpec => []OnlyRacersSucceed
<1>1. HandlersInit /\ SessionInit => RaceIInv
  BY RaceStarts
<1>2. RaceIInv /\ [SessionNext]_<<at, now, sessionVars>> => RaceIInv'
  BY RaceKept
<1>3. RaceIInv => OnlyRacersSucceed
  <2> SUFFICES ASSUME RaceIInv
               PROVE  OnlyRacersSucceed
    OBVIOUS
  <2>1. Inserting \in SUBSET Procs /\ \A n : Verified(n) \in SUBSET Procs
    BY DEF Inserting, Verified
  <2>2. /\ Cardinality(Inserting) \in Nat /\ Cardinality(Procs) \in Nat
        /\ \A n : Cardinality(Verified(n)) \in Nat
    BY <2>1, ProcsCounted
  <2>3. accounts <= founders
    <3>1. accounts \in Nat /\ founders \in Nat
      BY DEF RaceIInv
    <3>2. accounts > 0 => accounts + Cardinality(Inserting) <= founders
      BY DEF RaceIInv
    <3> QED
      BY <2>2, <3>1, <3>2
  <2>4. ASSUME NEW n \in 1..MaxCaptchas
        PROVE  uses[n] <= Cardinality(Procs)
    <3>1. Cardinality(Verified(n)) \in Nat /\ uses[n] \in Nat
      BY <2>2 DEF RaceIInv
    <3>2. uses[n] + Cardinality(Verified(n)) <= Cardinality(Procs)
      BY DEF RaceIInv
    <3> QED
      BY <2>2, <3>1, <3>2
  <2> QED
    BY <2>3, <2>4 DEF OnlyRacersSucceed, RaceIInv
<1> QED
  BY <1>1, <1>2, <1>3, PTL DEF SessionSpec
-----------------------------------------------------------------------------
(* The rate limiter.                                                        *)

RateTypes ==
  /\ at \in [Procs -> {"idle", "allowed"} \cup RateStages]
  /\ minute \in Minutes
  /\ counter \in [Minutes -> Nat] /\ passed \in [Minutes -> Nat] /\ late \in [Minutes -> Nat]
  /\ window \in [Procs -> Minutes] /\ nth \in [Procs -> Nat]

LEMMA RateTypesKept ==
  ASSUME RateTypes, [RateNext]_<<at, rateVars>>
  PROVE  RateTypes'
<1>1. ASSUME NEW p \in Procs, Arrive(p)
      PROVE  RateTypes'
  BY <1>1 DEF Arrive, Trip, RateTypes, RateStages, rateKeys
<1>2. ASSUME NEW p \in Procs, Incr(p)
      PROVE  RateTypes'
  <2>1. window[p] \in Minutes
    BY DEF RateTypes
  <2> QED
    BY <1>2, <2>1 DEF Incr, Trip, RateTypes, RateStages
<1>3. ASSUME NEW p \in Procs, ExpireCounter(p) \/ Allowed(p)
      PROVE  RateTypes'
  BY <1>3 DEF ExpireCounter, Allowed, Trip, RateTypes, RateStages,
              rateVars, rateKeys, rateRequest, rateHistory
<1>4. ASSUME NEW p \in Procs, Check(p)
      PROVE  RateTypes'
  <2>1. window[p] \in Minutes /\ 0 \in Minutes
    BY RateAssumption DEF RateTypes, Minutes
  <2> QED
    BY <1>4, <2>1 DEF Check, Trip, Ends, RequestForgets, RateTypes, RateStages, rateKeys
<1>5. ASSUME NEW p \in Procs, RateFails(p)
      PROVE  RateTypes'
  <2>1. 0 \in Minutes
    BY RateAssumption DEF Minutes
  <2> QED
    BY <1>5, <2>1 DEF RateFails, Ends, RequestForgets, RateTypes, RateStages, rateKeys
<1>6. CASE NextMinute \/ \E m \in Minutes : CounterExpires(m)
  <2>1. minute' \in Minutes
    BY <1>6, RateAssumption DEF NextMinute, CounterExpires, RateTypes, Minutes
  <2> QED
    BY <1>6, <2>1 DEF NextMinute, CounterExpires, RateTypes,
                      rateKeys, rateRequest, rateHistory
<1>7. CASE UNCHANGED <<at, rateVars>>
  BY <1>7 DEF RateTypes, rateVars, rateKeys, rateRequest, rateHistory
<1> QED
  BY <1>1, <1>2, <1>3, <1>4, <1>5, <1>6, <1>7 DEF RateNext

LEMMA RateStarts ==
  ASSUME HandlersInit, RateInit
  PROVE  RateTypes
BY RateAssumption DEF HandlersInit, RateInit, RateTypes, RateStages, Minutes

\* A counter without a TTL has a request at its EXPIRE, or one that failed there
\* (ratelimit.go), for any limit and any goroutines.
THEOREM CountersGetTTL == RateSpec => []CountersExpire
<1>1. HandlersInit /\ RateInit => CountersExpire
  BY DEF RateInit, CountersExpire
<1>2. RateTypes /\ CountersExpire /\ [RateNext]_<<at, rateVars>> => CountersExpire'
  <2> SUFFICES ASSUME RateTypes, CountersExpire, [RateNext]_<<at, rateVars>>
               PROVE  CountersExpire'
    OBVIOUS
  <2>1. ASSUME NEW p \in Procs, Arrive(p)
        PROVE  CountersExpire'
    BY <2>1 DEF Arrive, Trip, RateTypes, CountersExpire, rateKeys
  <2>2. ASSUME NEW p \in Procs, Incr(p)
        PROVE  CountersExpire'
    <3> SUFFICES ASSUME NEW m \in Minutes, counter'[m] > 0, m \notin counterTTL'
                 PROVE  m \in stuck' \/ \E q \in Procs : at'[q] = "expireCounter" /\ window'[q] = m
      BY DEF CountersExpire
    <3>1. CASE counter[m] > 0
      BY <2>2, <3>1 DEF Incr, Trip, RateTypes, CountersExpire
    <3>2. CASE counter[m] = 0
      BY <2>2, <3>2 DEF Incr, Trip, Creates, RateTypes
    <3> QED
      BY <2>2, <3>1, <3>2 DEF RateTypes
  <2>3. ASSUME NEW p \in Procs, ExpireCounter(p)
        PROVE  CountersExpire'
    BY <2>3 DEF ExpireCounter, Trip, RateTypes, CountersExpire, rateRequest, rateHistory
  <2>4. ASSUME NEW p \in Procs, Check(p) \/ Allowed(p) \/ RateFails(p)
        PROVE  CountersExpire'
    BY <2>4 DEF Check, Allowed, RateFails, Trip, Ends, RequestForgets, RateTypes,
                CountersExpire, rateVars, rateKeys, rateRequest, rateHistory
  <2>5. CASE NextMinute \/ UNCHANGED <<at, rateVars>>
    BY <2>5 DEF NextMinute, CountersExpire, rateVars, rateKeys, rateRequest, rateHistory
  <2>6. ASSUME NEW m \in Minutes, CounterExpires(m)
        PROVE  CountersExpire'
    BY <2>6 DEF CounterExpires, RateTypes, CountersExpire, rateRequest, rateHistory
  <2> QED
    BY <2>1, <2>2, <2>3, <2>4, <2>5, <2>6 DEF RateNext
<1>3. HandlersInit /\ RateInit => RateTypes
  BY RateStarts
<1>4. RateTypes /\ [RateNext]_<<at, rateVars>> => RateTypes'
  BY RateTypesKept
<1> QED
  BY <1>1, <1>2, <1>3, <1>4, PTL DEF RateSpec

\* The requests of minute m that will go through.
Passing(m) == {p \in Procs : /\ window[p] = m
                             /\ at[p] \in {"expireCounter", "check"}
                             /\ nth[p] <= Limit}

\* They are counted with those that went through, by the key of the minute while
\* it lasts, and later by the limit and the late ones.
LimitIInv ==
  /\ RateTypes
  /\ \A m \in Minutes :
       /\ passed[m] + Cardinality(Passing(m)) <= Limit + late[m]
       /\ minute <= m => passed[m] + Cardinality(Passing(m)) <= counter[m]

\* A step after which no more requests will go through.
LEMMA RateQuiet ==
  ASSUME LimitIInv, RateTypes', UNCHANGED <<passed, late>>, minute' >= minute,
         \A m \in Minutes : Passing(m)' \subseteq Passing(m),
         \A m \in Minutes : minute' <= m => counter'[m] = counter[m]
  PROVE  LimitIInv'
<1> SUFFICES ASSUME NEW m \in Minutes
             PROVE  /\ passed'[m] + Cardinality(Passing(m)') <= Limit + late'[m]
                    /\ minute' <= m => passed'[m] + Cardinality(Passing(m)') <= counter'[m]
  BY DEF LimitIInv
<1>1. Passing(m)' \in SUBSET Passing(m) /\ Passing(m) \in SUBSET Procs
  BY DEF Passing
<1>2. /\ Cardinality(Passing(m)) \in Nat /\ Cardinality(Passing(m)') \in Nat
      /\ Cardinality(Passing(m)') <= Cardinality(Passing(m))
  BY <1>1, ProcsCounted
<1>3. /\ passed[m] \in Nat /\ late[m] \in Nat /\ counter[m] \in Nat /\ Limit \in Nat
      /\ minute \in Nat /\ minute' \in Nat /\ m \in Nat
      /\ passed'[m] = passed[m] /\ late'[m] = late[m]
      /\ minute' <= m => counter'[m] = counter[m]
  BY RateAssumption DEF LimitIInv, RateTypes, Minutes
<1>4. /\ passed[m] + Cardinality(Passing(m)) <= Limit + late[m]
      /\ minute <= m => passed[m] + Cardinality(Passing(m)) <= counter[m]
  BY DEF LimitIInv
<1> QED
  BY <1>2, <1>3, <1>4

LEMMA LimitStepKept ==
  ASSUME LimitIInv, RateTypes', RateNext
  PROVE  LimitIInv'
<1>0. RateTypes /\ Limit \in Nat /\ minute \in Nat
  <2>1. RateTypes
    BY DEF LimitIInv
  <2>2. Limit \in Nat /\ minute \in Nat
    BY <2>1, RateAssumption DEF RateTypes, Minutes
  <2> QED
    BY <2>1, <2>2
<1>1. ASSUME NEW p \in Procs, Arrive(p) \/ Allowed(p) \/ RateFails(p) \/ ExpireCounter(p)
      PROVE  LimitIInv'
  <2>1. UNCHANGED <<passed, late, minute, counter>>
    BY <1>1 DEF Arrive, Allowed, RateFails, ExpireCounter,
                rateVars, rateKeys, rateHistory
  <2>2. \A m \in Minutes : Passing(m)' \subseteq Passing(m)
    BY <1>0, <1>1 DEF Arrive, Allowed, RateFails, ExpireCounter, Trip, Ends,
       RequestForgets, RateTypes, Passing, rateVars, rateRequest
  <2> QED
    BY <1>0, <2>1, <2>2, RateQuiet
<1>2. ASSUME NEW p \in Procs, Incr(p)
      PROVE  LimitIInv'
  <2> SUFFICES ASSUME NEW m \in Minutes
               PROVE  /\ passed'[m] + Cardinality(Passing(m)') <= Limit + late'[m]
                      /\ minute' <= m => passed'[m] + Cardinality(Passing(m)') <= counter'[m]
    BY DEF LimitIInv
  <2>1. Passing(m) \in SUBSET Procs /\ p \notin Passing(m)
    BY <1>2 DEF Passing, Incr, Trip
  <2>2. /\ passed[m] \in Nat /\ late[m] \in Nat /\ counter[m] \in Nat /\ m \in Nat
        /\ passed' = passed /\ minute' = minute
    BY <1>0, <1>2 DEF Incr, RateTypes, Minutes
  <2>3. /\ passed[m] + Cardinality(Passing(m)) <= Limit + late[m]
        /\ minute <= m => passed[m] + Cardinality(Passing(m)) <= counter[m]
    BY DEF LimitIInv
  <2>4. /\ Cardinality(Passing(m)) \in Nat
        /\ Cardinality(Passing(m) \cup {p}) = Cardinality(Passing(m)) + 1
    BY <2>1, HandlersAssumption, ProcsCounted, FS_Subset, FS_AddElement
  <2>5. CASE window[p] = m
    <3>1. /\ counter'[m] = counter[m] + 1 /\ nth'[p] = counter[m] + 1
          /\ late'[m] = (IF minute > m THEN late[m] + 1 ELSE late[m])
      BY <1>0, <1>2, <2>5 DEF Incr, RateTypes
    <3>2. Passing(m)' = (IF nth'[p] <= Limit THEN Passing(m) \cup {p} ELSE Passing(m))
      BY <1>0, <1>2, <2>5 DEF Incr, Trip, RateTypes, Passing
    <3> QED
      BY <1>0, <2>2, <2>3, <2>4, <3>1, <3>2
  <2>6. CASE window[p] # m
    <3>1. counter'[m] = counter[m] /\ late'[m] = late[m]
      BY <1>0, <1>2, <2>6 DEF Incr, RateTypes
    <3>2. Passing(m)' = Passing(m)
      BY <1>0, <1>2, <2>6 DEF Incr, Trip, RateTypes, Passing
    <3> QED
      BY <2>2, <2>3, <3>1, <3>2
  <2> QED
    BY <2>5, <2>6
<1>3. ASSUME NEW p \in Procs, Check(p)
      PROVE  LimitIInv'
  <2>1. CASE Over(nth[p])
    <3>1. UNCHANGED <<passed, late, minute, counter>>
      BY <1>3, <2>1 DEF Check, rateKeys
    <3>2. \A m \in Minutes : Passing(m)' \subseteq Passing(m)
      BY <1>0, <1>3, <2>1 DEF Check, Ends, RequestForgets, RateTypes, Passing
    <3> QED
      BY <1>0, <3>1, <3>2, RateQuiet
  <2>2. CASE ~Over(nth[p])
    <3> SUFFICES ASSUME NEW m \in Minutes
                 PROVE  /\ passed'[m] + Cardinality(Passing(m)') <= Limit + late'[m]
                        /\ minute' <= m => passed'[m] + Cardinality(Passing(m)') <= counter'[m]
      BY DEF LimitIInv
    <3>1. Passing(m)' = Passing(m) \ {p} /\ Passing(m) \in SUBSET Procs
      BY <1>0, <1>3, <2>2 DEF Check, Trip, RequestForgets, RateTypes, Passing
    <3>2. p \in Passing(m) <=> window[p] = m
      BY <1>0, <1>3, <2>2 DEF Check, Over, RateTypes, Passing
    <3>3. passed'[m] = (IF window[p] = m THEN passed[m] + 1 ELSE passed[m])
          /\ UNCHANGED <<late, minute, counter>>
      BY <1>0, <1>3, <2>2 DEF Check, RateTypes, rateKeys
    <3>4. Cardinality(Passing(m)') =
            (IF window[p] = m THEN Cardinality(Passing(m)) - 1 ELSE Cardinality(Passing(m)))
          /\ Cardinality(Passing(m)) \in Nat
      BY <3>1, <3>2, HandlersAssumption, ProcsCounted, FS_Subset, FS_RemoveElement
    <3>5. /\ passed[m] + Cardinality(Passing(m)) <= Limit + late[m]
          /\ minute <= m => passed[m] + Cardinality(Passing(m)) <= counter[m]
          /\ passed[m] \in Nat /\ late[m] \in Nat /\ counter[m] \in Nat
      BY <1>0 DEF LimitIInv, RateTypes
    <3> QED
      BY <1>0, <3>3, <3>4, <3>5
  <2> QED
    BY <2>1, <2>2
<1>4. CASE NextMinute \/ \E m \in Minutes : CounterExpires(m)
  <2>1. UNCHANGED <<passed, late>> /\ minute' >= minute
        /\ \A m \in Minutes : Passing(m)' \subseteq Passing(m)
    BY <1>0, <1>4 DEF NextMinute, CounterExpires, Passing, rateKeys, rateRequest, rateHistory
  <2>2. \A m \in Minutes : minute' <= m => counter'[m] = counter[m]
    BY <1>0, <1>4 DEF NextMinute, CounterExpires, WindowOver, RateTypes, Minutes, rateKeys
  <2> QED
    BY <1>0, <2>1, <2>2, RateQuiet
<1> QED
  BY <1>1, <1>2, <1>3, <1>4 DEF RateNext

\* No more than Limit requests of a minute go through, and those that came to
\* their INCR late (ratelimit.go), for any limit and any goroutines.
THEOREM LimitHolds == RateSpec => []LimitKept
<1>1. HandlersInit /\ RateInit => LimitIInv
  <2> SUFFICES ASSUME HandlersInit, RateInit
               PROVE  LimitIInv
    OBVIOUS
  <2>1. \A m \in Minutes : Passing(m) = {} /\ passed[m] = 0 /\ late[m] = 0 /\ counter[m] = 0
    BY DEF HandlersInit, RateInit, Passing
  <2>2. Cardinality({}) = 0
    BY FS_EmptySet
  <2>3. \A m \in Minutes : passed[m] + Cardinality(Passing(m)) = 0
    BY <2>1, <2>2
  <2> QED
    BY <2>1, <2>3, RateStarts, RateAssumption DEF LimitIInv
<1>2. LimitIInv /\ [RateNext]_<<at, rateVars>> => LimitIInv'
  <2> SUFFICES ASSUME LimitIInv, [RateNext]_<<at, rateVars>>
               PROVE  LimitIInv'
    OBVIOUS
  <2>1. RateTypes'
    BY RateTypesKept DEF LimitIInv
  <2>2. CASE UNCHANGED <<at, rateVars>>
    BY <2>1, <2>2 DEF LimitIInv, Passing, rateVars, rateKeys, rateRequest, rateHistory
  <2> QED
    BY <2>1, <2>2, LimitStepKept
<1>3. LimitIInv => LimitKept
  <2> SUFFICES ASSUME LimitIInv, NEW m \in Minutes
               PROVE  passed[m] <= Limit + late[m]
    BY DEF LimitKept
  <2>1. Passing(m) \in SUBSET Procs
    BY DEF Passing
  <2>2. Cardinality(Passing(m)) \in Nat
    BY <2>1, ProcsCounted
  <2>3. passed[m] \in Nat /\ late[m] \in Nat /\ Limit \in Nat
        /\ passed[m] + Cardinality(Passing(m)) <= Limit + late[m]
    BY RateAssumption DEF LimitIInv, RateTypes
  <2> QED
    BY <2>2, <2>3
<1> QED
  BY <1>1, <1>2, <1>3, PTL DEF RateSpec

-----------------------------------------------------------------------------
(* The task's requests and comments.                                        *)

\* The columns of a creation or a comment, of UpdateStatus, and of UpdateTask.
NoColumns == <<>>
StatusColumns == [status : Statuses]
EditColumns == [title : Titles, assignee : Users \cup {Nobody}]
Columns == {NoColumns} \cup StatusColumns \cup EditColumns

ServedRequests == [call : Nat, actor : Users, row : Rows, new : Columns]
StoredNotes == [to : Users, call : Nat, assigned : BOOLEAN]

\* A goroutine that serves a request knows it, and the task is there.
TaskTypes ==
  /\ task \in Rows \cup {NoTask}
  /\ at \in [Procs -> Stages \cup {"comment"}]
  /\ DOMAIN req = Procs /\ DOMAIN mentions = Procs
  /\ \A p \in Procs :
       /\ at[p] # "idle" => req[p] \in ServedRequests /\ task # NoTask
       /\ at[p] \in {"update", "cache", "heat", "notify", "enqueue"} => IsUpdate(req[p])
       /\ at[p] = "comment" => ~ IsUpdate(req[p])
       /\ mentions[p] \in Seq(Users)
  /\ changes \in Nat /\ blind \in Nat /\ activities \in Nat /\ heat \in Nat
  /\ calls \in Nat /\ rejected \in Nat /\ lost \in Nat

LEMMA ColumnKinds ==
  ASSUME NEW x \in Columns
  PROVE  /\ x = <<>> => DOMAIN x = {}
         /\ x # <<>> => \/ x \in StatusColumns /\ DOMAIN x = {"status"}
                        \/ x \in EditColumns /\ DOMAIN x = {"title", "assignee"}
BY DEF Columns, NoColumns, StatusColumns, EditColumns

LEMMA NotEmptyColumns ==
  ASSUME NEW x \in StatusColumns \cup EditColumns
  PROVE  x # <<>>
BY DEF StatusColumns, EditColumns

LEMMA UpdatedRows ==
  ASSUME NEW r \in ServedRequests, task \in Rows
  PROVE  /\ UpdatedRow(r) \in Rows
         /\ UpdatedRow(r).assignee =
              IF "assignee" \in DOMAIN r.new THEN r.new.assignee ELSE task.assignee
<1>1. r.new \in Columns
  BY DEF ServedRequests
<1>2. CASE r.new = <<>>
  <2>1. UpdatedRow(r) = task
    BY <1>1, <1>2, ColumnKinds DEF UpdatedRow, Rows
  <2> QED
    BY <1>1, <1>2, <2>1, ColumnKinds
<1>3. CASE r.new \in StatusColumns /\ DOMAIN r.new = {"status"}
  <2>1. UpdatedRow(r) = [title |-> task.title, assignee |-> task.assignee,
                         status |-> r.new.status]
    BY <1>3 DEF UpdatedRow, Rows
  <2> QED
    BY <1>3, <2>1 DEF Rows, StatusColumns
<1>4. CASE r.new \in EditColumns /\ DOMAIN r.new = {"title", "assignee"}
  <2>1. UpdatedRow(r) = [title |-> r.new.title, assignee |-> r.new.assignee,
                         status |-> task.status]
    BY <1>4 DEF UpdatedRow, Rows
  <2> QED
    BY <1>4, <2>1 DEF Rows, EditColumns
<1> QED
  BY <1>1, <1>2, <1>3, <1>4, ColumnKinds

LEMMA EditsAreColumns ==
  /\ \A s \in Statuses : [status |-> s] \in Columns \ {<<>>}
  /\ \A t \in Titles, a \in Users \cup {Nobody} :
       [title |-> t, assignee |-> a] \in Columns \ {<<>>}
<1>1. /\ \A s \in Statuses : [status |-> s] \in StatusColumns
      /\ \A t \in Titles, a \in Users \cup {Nobody} :
           [title |-> t, assignee |-> a] \in EditColumns
  BY DEF StatusColumns, EditColumns
<1> QED
  BY <1>1, NotEmptyColumns DEF Columns

\* A goroutine that serves a request has read the row.
LEMMA ReadsKeepsTypes ==
  ASSUME TaskTypes, NEW p \in Procs, NEW u \in Users, NEW new \in Columns,
         NEW stage \in {"update", "comment"}, Reads(p, u, new, stage),
         new = <<>> <=> stage = "comment",
         DOMAIN mentions' = Procs, \A q \in Procs : mentions'[q] \in Seq(Users)
  PROVE  TaskTypes'
<1> DEFINE r == [call |-> calls', actor |-> u, row |-> task, new |-> new]
<1>1. /\ UNCHANGED <<task, activities, heat, changes, blind, rejected, lost>>
      /\ at' = [at EXCEPT ![p] = stage] /\ calls' = calls + 1 /\ task \in Rows
      /\ req' = [req EXCEPT ![p] = r]
  BY DEF Reads, Trip, effects, history, TaskTypes
<1>2. calls' \in Nat /\ at' \in [Procs -> Stages \cup {"comment"}]
  BY <1>1 DEF TaskTypes, Stages
<1>3. r \in ServedRequests /\ (IsUpdate(r) <=> stage = "update")
  BY <1>1, <1>2 DEF ServedRequests, IsUpdate
<1> HIDE DEF r
<1>4. \A q \in Procs : /\ at'[q] = (IF q = p THEN stage ELSE at[q])
                        /\ req'[q] = (IF q = p THEN r ELSE req[q])
  BY <1>1 DEF TaskTypes
<1>5. task' # NoTask
  BY <1>1, RequestsAssumption
<1>6. ASSUME NEW q \in Procs
      PROVE  /\ at'[q] # "idle" => req'[q] \in ServedRequests
             /\ at'[q] \in {"update", "cache", "heat", "notify", "enqueue"} => IsUpdate(req'[q])
             /\ at'[q] = "comment" => ~ IsUpdate(req'[q])
  BY <1>3, <1>4 DEF TaskTypes
<1> QED
  BY <1>1, <1>2, <1>5, <1>6 DEF TaskTypes, IsUpdate

\* The steps that end a request or carry it on, each with its counters.
LEMMA GoesOnKeepsTypes ==
  ASSUME TaskTypes, NEW p \in Procs, at[p] # "idle",
         NEW stage \in Stages, at' = [at EXCEPT ![p] = stage],
         stage \in {"idle", "activity", "announce"}
           \/ (IsUpdate(req[p]) /\ stage # "comment"),
         req' = req \/ (stage = "idle" /\ req' = [req EXCEPT ![p] = NoReq]),
         task' \in Rows,
         DOMAIN mentions' = Procs, \A q \in Procs : mentions'[q] \in Seq(Users),
         changes' \in Nat, blind' \in Nat, activities' \in Nat, heat' \in Nat,
         calls' \in Nat, rejected' \in Nat, lost' \in Nat
  PROVE  TaskTypes'
<1>1. task' # NoTask
  BY RequestsAssumption
<1>2. at' \in [Procs -> Stages \cup {"comment"}] /\ DOMAIN req' = Procs
  BY DEF TaskTypes
<1>3. ASSUME NEW q \in Procs
      PROVE  /\ at'[q] # "idle" => req'[q] \in ServedRequests
             /\ at'[q] \in {"update", "cache", "heat", "notify", "enqueue"} => IsUpdate(req'[q])
             /\ at'[q] = "comment" => ~ IsUpdate(req'[q])
  <2>1. CASE q = p
    BY <2>1 DEF TaskTypes, IsUpdate, Stages
  <2>2. CASE q # p
    BY <2>2 DEF TaskTypes, IsUpdate
  <2> QED
    BY <2>1, <2>2
<1> QED
  BY <1>1, <1>2, <1>3 DEF TaskTypes, IsUpdate

LEMMA TaskTypesKept ==
  ASSUME TaskTypes, [CommentsNext]_commentVars
  PROVE  TaskTypes'
<1>1. CASE UNCHANGED commentVars
  BY <1>1 DEF TaskTypes, commentVars, requestVars, served, effects, history, IsUpdate
<1>2. ASSUME NEW p \in Procs, NEW u \in Users, CreateComment(p, u)
      PROVE  TaskTypes'
  <2>1. PICK m \in SeqOf(Users, MaxMentions) : mentions' = [mentions EXCEPT ![p] = m]
    BY <1>2 DEF CreateComment
  <2>2. m \in Seq(Users)
    BY CommentsAssumption DEF SeqOf
  <2>3. DOMAIN mentions' = Procs /\ \A q \in Procs : mentions'[q] \in Seq(Users)
    BY <2>1, <2>2 DEF TaskTypes
  <2>4. Reads(p, u, <<>>, "comment") /\ <<>> \in Columns
    BY <1>2 DEF CreateComment, Columns, NoColumns
  <2> QED
    BY <2>3, <2>4, ReadsKeepsTypes
<1>3. ASSUME NEW p \in Procs, NEW u \in Users, UpdateTask(p, u) \/ UpdateStatus(p, u),
             UNCHANGED mentions
      PROVE  TaskTypes'
  <2>1. PICK new \in Columns \ {<<>>} : Reads(p, u, new, "update")
    BY <1>3, EditsAreColumns DEF UpdateTask, UpdateStatus
  <2>2. DOMAIN mentions' = Procs /\ \A q \in Procs : mentions'[q] \in Seq(Users)
    BY <1>3 DEF TaskTypes
  <2> QED
    BY <2>1, <2>2, ReadsKeepsTypes
<1>4. ASSUME NEW p \in Procs, NEW u \in Users, CreateTask(p, u), UNCHANGED mentions
      PROVE  TaskTypes'
  <2> DEFINE r == [call |-> 0, actor |-> u, row |-> task', new |-> <<>>]
  <2>1. /\ at' = [at EXCEPT ![p] = "activity"] /\ task = NoTask /\ task' \in Rows
        /\ req' = [req EXCEPT ![p] = r]
        /\ UNCHANGED <<activities, heat, calls, changes, blind, rejected, lost>>
    BY <1>4 DEF CreateTask, Trip, effects, history
  <2>2. r \in ServedRequests
    BY <2>1 DEF ServedRequests, Columns, NoColumns
  <2>3. task' # NoTask
    BY <2>1, RequestsAssumption
  <2> HIDE DEF r
  <2>4. \A q \in Procs : /\ at[q] = "idle"
                          /\ at'[q] = (IF q = p THEN "activity" ELSE at[q])
                          /\ req'[q] = (IF q = p THEN r ELSE req[q])
    BY <2>1 DEF TaskTypes
  <2> QED
    BY <1>4, <2>1, <2>2, <2>3, <2>4 DEF TaskTypes, IsUpdate, Stages
<1>5. ASSUME NEW p \in Procs,
             \/ Update(p) \/ DelCache(p) \/ Activity(p) \/ IncreaseHeat(p) \/ Notify(p)
             \/ NotifyFails(p) \/ Enqueue(p) \/ Announce(p) \/ RequestFails(p)
             \/ Comment(p) \/ CommentFails(p),
             UNCHANGED mentions \/ mentions' = [mentions EXCEPT ![p] = <<>>]
      PROVE  TaskTypes'
  <2>1. /\ at[p] # "idle" /\ req[p] \in ServedRequests /\ task \in Rows
    BY <1>5 DEF TaskTypes, Trip, Update, DelCache, Activity, IncreaseHeat, Notify, NotifyFails,
                Enqueue, Announce, RequestFails, Comment, CommentFails
  <2>2. DOMAIN mentions' = Procs /\ \A q \in Procs : mentions'[q] \in Seq(Users)
    <3>1. <<>> \in Seq(Users)
      OBVIOUS
    <3> QED
      BY <1>5, <3>1 DEF TaskTypes
  <2>3. /\ changes' \in Nat /\ blind' \in Nat /\ activities' \in Nat /\ heat' \in Nat
        /\ calls' \in Nat /\ rejected' \in Nat /\ lost' \in Nat
    <3>1. CASE Update(p) \/ DelCache(p) \/ Activity(p) \/ IncreaseHeat(p)
      BY <3>1 DEF TaskTypes, Update, DelCache, Activity, IncreaseHeat, effects, history
    <3>2. CASE Notify(p) \/ NotifyFails(p) \/ Enqueue(p) \/ Announce(p)
      BY <3>2 DEF TaskTypes, Notify, NotifyFails, Enqueue, Announce, effects, history
    <3>3. CASE RequestFails(p) \/ Comment(p) \/ CommentFails(p)
      BY <3>3 DEF TaskTypes, RequestFails, Comment, CommentFails, effects, history
    <3> QED
      BY <1>5, <3>1, <3>2, <3>3
  <2>4. task' \in Rows
    BY <1>5, <2>1, UpdatedRows
       DEF Update, DelCache, Activity, IncreaseHeat, Notify, NotifyFails,
           Enqueue, Announce, RequestFails, Comment, CommentFails
  <2>5. \E stage \in Stages :
          /\ at' = [at EXCEPT ![p] = stage]
          /\ stage \in {"idle", "activity", "announce"} \/ IsUpdate(req[p])
          /\ req' = req \/ (stage = "idle" /\ req' = [req EXCEPT ![p] = NoReq])
    <3> USE DEF TaskTypes, Trip, Done, Ends, Stages
    <3>1. CASE Update(p) \/ DelCache(p) \/ Notify(p) \/ NotifyFails(p) \/ Comment(p)
      BY <3>1 DEF Update, DelCache, Notify, NotifyFails, Comment
    <3>2. CASE Activity(p) \/ IncreaseHeat(p)
      BY <3>2 DEF Activity, IncreaseHeat
    <3>3. CASE Enqueue(p) \/ RequestFails(p) \/ CommentFails(p)
      BY <3>3 DEF Enqueue, RequestFails, CommentFails
    <3>4. CASE Announce(p)
      <4>1. CASE UNCHANGED <<at, req>>
        BY <3>4, <4>1 DEF Announce
      <4>2. CASE Done(p)
        BY <3>4, <4>2
      <4> QED
        BY <3>4, <4>1, <4>2 DEF Announce
    <3> QED
      BY <1>5, <3>1, <3>2, <3>3, <3>4
  <2> QED
    BY <2>1, <2>2, <2>3, <2>4, <2>5, GoesOnKeepsTypes DEF Stages
<1> QED
  BY <1>1, <1>2, <1>3, <1>4, <1>5 DEF CommentsNext, RequestStep, Comment, CommentFails

Bit(b) == IF b THEN 1 ELSE 0

\* A set of goroutines in or out of which p may have moved.
LEMMA OneMoves ==
  ASSUME NEW S \in SUBSET Procs, NEW T \in SUBSET Procs, NEW p \in Procs, S \ {p} = T \ {p}
  PROVE  /\ Cardinality(S) \in Nat /\ Cardinality(T) \in Nat
         /\ Cardinality(T) + Bit(p \in S) = Cardinality(S) + Bit(p \in T)
<1>1. Cardinality(S) \in Nat /\ Cardinality(T) \in Nat
  BY ProcsCounted
<1>2. ASSUME NEW U \in SUBSET Procs
      PROVE  Cardinality(U \ {p}) + Bit(p \in U) = Cardinality(U)
  <2>1. CASE p \in U
    <3>1. Cardinality(U \ {p}) = Cardinality(U) - 1 /\ Cardinality(U) \in Nat
      BY <2>1, ProcsCounted
    <3>2. Bit(p \in U) = 1
      BY <2>1 DEF Bit
    <3> QED
      BY <3>1, <3>2
  <2>2. CASE p \notin U
    <3>1. U \ {p} = U
      BY <2>2
    <3>2. Cardinality(U \ {p}) = Cardinality(U) /\ Cardinality(U) \in Nat
      BY <3>1, ProcsCounted
    <3>3. Bit(p \in U) = 0
      BY <2>2 DEF Bit
    <3> QED
      BY <3>2, <3>3
  <2> QED
    BY <2>1, <2>2
<1>3. /\ Cardinality(S \ {p}) + Bit(p \in S) = Cardinality(S)
      /\ Cardinality(S \ {p}) + Bit(p \in T) = Cardinality(T)
      /\ Cardinality(S \ {p}) \in Nat
  BY <1>2, ProcsCounted
<1> QED
  BY <1>1, <1>3 DEF Bit

\* The requests that have their activity, and their heat, to come.
Upcoming == {p \in Procs : at[p] \in {"cache", "activity"}}
Heating  == {p \in Procs : at[p] \in {"cache", "heat"}}
ToHeat   == {p \in Procs : at[p] = "activity" /\ IsUpdate(req[p])}
Made     == changes + Cardinality(comments) + Bit(task # NoTask)

EffectsCounted ==
  /\ activities + Cardinality(Upcoming) <= Made
  /\ Made <= activities + Cardinality(Upcoming) + lost
  /\ heat + Cardinality(Heating) + Cardinality(ToHeat) <= changes
  /\ changes <= heat + Cardinality(Heating) + Cardinality(ToHeat) + lost

LEMMA EffectsAre == EffectsCounted => EffectsOnce
BY DEF EffectsCounted, EffectsOnce, AtOneOf, Upcoming, Heating, ToHeat, Made, Bit

\* A step of p that counts as much as it moves p, or loses p's request.
LEMMA EffectsMove ==
  ASSUME TaskTypes, TaskTypes', EffectsCounted, NEW p \in Procs,
         \A q \in Procs \ {p} : at'[q] = at[q] /\ req'[q] = req[q],
         Made \in Nat, Made' \in Nat,
         lost <= lost',
         activities' + Bit(p \in Upcoming') + Made <= Made' + activities + Bit(p \in Upcoming),
         Made' + activities + Bit(p \in Upcoming) + lost
           <= activities' + Bit(p \in Upcoming') + Made + lost',
         heat' + Bit(p \in Heating') + Bit(p \in ToHeat') + changes
           <= changes' + heat + Bit(p \in Heating) + Bit(p \in ToHeat),
         changes' + heat + Bit(p \in Heating) + Bit(p \in ToHeat) + lost
           <= heat' + Bit(p \in Heating') + Bit(p \in ToHeat') + changes + lost'
  PROVE  EffectsCounted'
<1>1. /\ Upcoming \in SUBSET Procs /\ Upcoming' \in SUBSET Procs
      /\ Upcoming \ {p} = Upcoming' \ {p}
  BY DEF Upcoming
<1>2. /\ Heating \in SUBSET Procs /\ Heating' \in SUBSET Procs
      /\ Heating \ {p} = Heating' \ {p}
  BY DEF Heating
<1>3. /\ ToHeat \in SUBSET Procs /\ ToHeat' \in SUBSET Procs
      /\ ToHeat \ {p} = ToHeat' \ {p}
  BY DEF ToHeat, IsUpdate
<1> DEFINE u == Cardinality(Upcoming)   v == Cardinality(Upcoming')
           h == Cardinality(Heating)    i == Cardinality(Heating')
           t == Cardinality(ToHeat)     w == Cardinality(ToHeat')
<1>4. /\ u \in Nat /\ v \in Nat /\ v + Bit(p \in Upcoming) = u + Bit(p \in Upcoming')
      /\ h \in Nat /\ i \in Nat /\ i + Bit(p \in Heating) = h + Bit(p \in Heating')
      /\ t \in Nat /\ w \in Nat /\ w + Bit(p \in ToHeat) = t + Bit(p \in ToHeat')
  BY <1>1, <1>2, <1>3, OneMoves
<1>5. /\ activities + u <= Made /\ Made <= activities + u + lost
      /\ heat + h + t <= changes /\ changes <= heat + h + t + lost
  BY DEF EffectsCounted
<1>6. /\ activities \in Nat /\ heat \in Nat /\ changes \in Nat /\ lost \in Nat
      /\ activities' \in Nat /\ heat' \in Nat /\ changes' \in Nat /\ lost' \in Nat
  BY DEF TaskTypes
<1>7. /\ activities' + v <= Made' /\ Made' <= activities' + v + lost'
      /\ heat' + i + w <= changes' /\ changes' <= heat' + i + w + lost'
  <2> DEFINE bu == Bit(p \in Upcoming)  bv == Bit(p \in Upcoming')
             bh == Bit(p \in Heating)   bi == Bit(p \in Heating')
             bt == Bit(p \in ToHeat)    bw == Bit(p \in ToHeat')
             m == Made                  n == Made'
  <2>1. {bu, bv, bh, bi, bt, bw} \subseteq Nat
    BY DEF Bit
  <2>2. /\ v + bu = u + bv /\ i + bh = h + bi /\ w + bt = t + bw
        /\ {u, v, h, i, t, w, m, n} \subseteq Nat
    BY <1>4
  <2>3. /\ activities' + bv + m <= n + activities + bu
        /\ n + activities + bu + lost <= activities' + bv + m + lost'
        /\ heat' + bi + bw + changes <= changes' + heat + bh + bt
        /\ changes' + heat + bh + bt + lost <= heat' + bi + bw + changes + lost'
    OBVIOUS
  <2>4. activities + u <= m /\ m <= activities + u + lost
    BY <1>5
  <2> HIDE DEF u, v, h, i, t, w, bu, bv, bh, bi, bt, bw, m, n
  <2>5. activities' + v <= n /\ n <= activities' + v + lost'
    BY <1>6, <2>1, <2>2, <2>3, <2>4
  <2>6. heat' + i + w <= changes' /\ changes' <= heat' + i + w + lost'
    BY <1>5, <1>6, <2>1, <2>2, <2>3
  <2> QED
    BY <2>5, <2>6 DEF n
<1> QED
  BY <1>7 DEF EffectsCounted

\* A request that has yet to commit a comment, or may notify of an update.
Pending(p) == at[p] = "comment" \/ (at[p] # "idle" /\ IsUpdate(req[p]))

\* Comments and pending requests are told apart by their calls.
FreshCalls ==
  /\ IsFiniteSet(comments)
  /\ \A c \in comments : c.call \in Nat /\ c.call <= calls
  /\ \A p \in Procs : Pending(p) =>
       /\ req[p].call <= calls
       /\ \A c \in comments : c.call # req[p].call
       /\ \A q \in Procs : Pending(q) /\ req[p].call = req[q].call => p = q

LEMMA CallsAreNumbers ==
  ASSUME TaskTypes, NEW p \in Procs, at[p] # "idle"
  PROVE  req[p].call \in Nat
<1>1. req[p] \in ServedRequests
  BY DEF TaskTypes
<1> QED
  BY <1>1 DEF ServedRequests

\* Starts p: the SELECT of a request that may notify.
Starts(p) ==
  \E u \in Users :
    \/ CreateComment(p, u)
    \/ (UpdateTask(p, u) \/ UpdateStatus(p, u)) /\ UNCHANGED <<mentions, comments>>

\* All other steps of p, but the transaction.
GoesOn(p) ==
  /\ \/ \E u \in Users : CreateTask(p, u)
     \/ Update(p) \/ DelCache(p) \/ Activity(p) \/ IncreaseHeat(p) \/ Notify(p) \/ NotifyFails(p)
     \/ Enqueue(p) \/ Announce(p) \/ RequestFails(p) \/ CommentFails(p)
  /\ UNCHANGED comments

LEMMA StepsOfTasks ==
  ASSUME [CommentsNext]_commentVars
  PROVE  \/ UNCHANGED commentVars
         \/ \E p \in Procs : Starts(p) \/ GoesOn(p) \/ Comment(p)
BY DEF CommentsNext, RequestStep, CommentFails, Starts, GoesOn

\* What a start does.
LEMMA StartMoves ==
  ASSUME TaskTypes, NEW p \in Procs, Starts(p)
  PROVE  /\ at[p] = "idle" /\ at'[p] \in {"update", "comment"} /\ calls' = calls + 1
         /\ req'[p] \in ServedRequests /\ req'[p].call = calls + 1
         /\ IsUpdate(req'[p]) <=> at'[p] = "update"
         /\ \A q \in Procs \ {p} : at'[q] = at[q] /\ req'[q] = req[q]
         /\ UNCHANGED <<task, comments, held, effects, rejected, lost, history>>
<1>1. PICK u \in Users, new \in Columns, stage \in {"update", "comment"} :
        Reads(p, u, new, stage) /\ (new = <<>> <=> stage = "comment") /\ UNCHANGED comments
  <2>1. ASSUME NEW u \in Users, CreateComment(p, u)
        PROVE  Reads(p, u, <<>>, "comment") /\ <<>> \in Columns /\ UNCHANGED comments
    BY <2>1 DEF CreateComment, Columns, NoColumns
  <2>2. ASSUME NEW u \in Users, UpdateTask(p, u) \/ UpdateStatus(p, u)
        PROVE  \E new \in Columns \ {<<>>} : Reads(p, u, new, "update")
    BY <2>2, EditsAreColumns DEF UpdateTask, UpdateStatus
  <2> QED
    BY <2>1, <2>2 DEF Starts
<1> DEFINE r == [call |-> calls', actor |-> u, row |-> task, new |-> new]
<1>2. /\ at[p] = "idle" /\ at' = [at EXCEPT ![p] = stage] /\ task \in Rows
      /\ req' = [req EXCEPT ![p] = r] /\ calls' = calls + 1 /\ calls' \in Nat
      /\ UNCHANGED <<task, comments, held, effects, rejected, lost, history>>
  BY <1>1 DEF Reads, Trip, TaskTypes
<1>3. r \in ServedRequests /\ r.call = calls' /\ (IsUpdate(r) <=> stage = "update")
  BY <1>1, <1>2 DEF ServedRequests, IsUpdate
<1> HIDE DEF r
<1> QED
  BY <1>2, <1>3 DEF TaskTypes

\* What the others do.
LEMMA GoingOnMoves ==
  ASSUME TaskTypes, NEW p \in Procs, GoesOn(p)
  PROVE  /\ UNCHANGED <<comments, calls>>
         /\ \A q \in Procs \ {p} : at'[q] = at[q] /\ req'[q] = req[q]
         /\ Pending(p)' => Pending(p) /\ req'[p] = req[p]
<1> USE DEF TaskTypes, Trip, Done, Ends, Pending, IsUpdate, history
<1>1. UNCHANGED <<comments, calls>>
  BY DEF GoesOn, CreateTask, Update, DelCache, Activity, IncreaseHeat, Notify, NotifyFails,
         Enqueue, Announce, RequestFails, CommentFails
<1>2. ASSUME NEW u \in Users, CreateTask(p, u)
      PROVE  ~ Pending(p)' /\ \A q \in Procs \ {p} : at'[q] = at[q] /\ req'[q] = req[q]
  BY <1>2 DEF CreateTask
<1>3. CASE Update(p) \/ DelCache(p) \/ Notify(p) \/ NotifyFails(p)
  BY <1>1, <1>3 DEF Update, DelCache, Notify, NotifyFails
<1>4. CASE Activity(p) \/ IncreaseHeat(p) \/ Enqueue(p) \/ RequestFails(p) \/ CommentFails(p)
  BY <1>1, <1>4 DEF Activity, IncreaseHeat, Enqueue, RequestFails, CommentFails
<1>5. CASE Announce(p)
  BY <1>1, <1>5 DEF Announce
<1> QED
  BY <1>1, <1>2, <1>3, <1>4, <1>5 DEF GoesOn

LEMMA FreshKept ==
  ASSUME TaskTypes, FreshCalls, [CommentsNext]_commentVars
  PROVE  FreshCalls'
<1>1. CASE UNCHANGED commentVars
  BY <1>1 DEF commentVars, requestVars, served, FreshCalls, Pending, IsUpdate
<1>2. \A q \in Procs : Pending(q) => req[q].call \in Nat
  BY CallsAreNumbers DEF Pending
<1>3. calls \in Nat
  BY DEF TaskTypes
<1>4. ASSUME NEW p \in Procs, Starts(p)
      PROVE  FreshCalls'
  <2>1. /\ UNCHANGED comments /\ calls' = calls + 1 /\ req'[p].call = calls + 1
        /\ \A q \in Procs \ {p} : Pending(q)' => Pending(q) /\ req'[q] = req[q]
    BY <1>4, StartMoves DEF Pending, IsUpdate
  <2>2. \A q \in Procs \ {p} : Pending(q)' => req'[q].call <= calls /\ req'[q].call # calls + 1
    BY <1>2, <1>3, <2>1 DEF FreshCalls
  <2>3. \A c \in comments : c.call <= calls + 1 /\ c.call # calls + 1
    BY <1>3 DEF FreshCalls
  <2>4. ASSUME NEW q \in Procs, Pending(q)'
        PROVE  /\ req'[q].call <= calls'
               /\ \A c \in comments : c.call # req'[q].call
               /\ \A v \in Procs : Pending(v)' /\ req'[q].call = req'[v].call => q = v
    <3>1. CASE q = p
      BY <1>3, <2>1, <2>2, <2>3, <3>1
    <3>2. CASE q # p
      BY <1>2, <1>3, <2>1, <2>2, <2>4, <3>2 DEF FreshCalls
    <3> QED
      BY <3>1, <3>2
  <2> QED
    BY <2>1, <2>3, <2>4 DEF FreshCalls
<1>5. ASSUME NEW p \in Procs, Comment(p)
      PROVE  FreshCalls'
  <2> DEFINE c == [call |-> req[p].call, actor |-> req[p].actor,
                   assignee |-> req[p].row.assignee, mentions |-> mentions[p]]
  <2>1. /\ at[p] = "comment" /\ at' = [at EXCEPT ![p] = "activity"] /\ UNCHANGED <<req, calls>>
        /\ comments' = comments \cup {c}
    BY <1>5 DEF Comment, Trip
  <2>2. c.call = req[p].call /\ req[p].call \in Nat
    BY <2>1, CallsAreNumbers
  <2> HIDE DEF c
  <2>3. IsFiniteSet(comments')
    BY <2>1, FS_AddElement DEF FreshCalls
  <2>4. /\ \A q \in Procs : Pending(q)' => Pending(q) /\ q # p
        /\ Pending(p)
    BY <2>1 DEF TaskTypes, Pending, IsUpdate
  <2> QED
    BY <2>1, <2>2, <2>3, <2>4 DEF FreshCalls
<1>6. ASSUME NEW p \in Procs, GoesOn(p)
      PROVE  FreshCalls'
  <2>1. /\ UNCHANGED <<comments, calls>>
        /\ \A q \in Procs : Pending(q)' => Pending(q) /\ req'[q] = req[q]
    BY <1>6, GoingOnMoves DEF Pending, IsUpdate
  <2> QED
    BY <2>1 DEF FreshCalls
<1> QED
  BY <1>1, <1>4, <1>5, <1>6, StepsOfTasks

LEMMA MadeTypes ==
  ASSUME TaskTypes, TaskTypes', FreshCalls, FreshCalls'
  PROVE  /\ Made \in Nat /\ Made' \in Nat
         /\ comments' = comments =>
              Made' + changes + Bit(task # NoTask) = Made + changes' + Bit(task' # NoTask)
<1>1. Cardinality(comments) \in Nat /\ Cardinality(comments') \in Nat
  BY FS_CardinalityType DEF FreshCalls
<1>2. comments' = comments => Cardinality(comments') = Cardinality(comments)
  OBVIOUS
<1>3. changes \in Nat /\ changes' \in Nat
  BY DEF TaskTypes
<1> QED
  BY <1>1, <1>2, <1>3 DEF Made, Bit

LEMMA GoingOnEffects ==
  ASSUME TaskTypes, TaskTypes', FreshCalls, FreshCalls', EffectsCounted,
         NEW p \in Procs, GoesOn(p)
  PROVE  EffectsCounted'
<1>1. /\ Made \in Nat /\ Made' \in Nat
      /\ \A q \in Procs \ {p} : at'[q] = at[q] /\ req'[q] = req[q]
  BY MadeTypes, GoingOnMoves
<1>2. /\ {activities, heat, changes, lost, activities', heat', changes', lost'} \subseteq Nat
      /\ at[p] # "idle" => task # NoTask
  BY DEF TaskTypes
<1> USE DEF Trip, Done, Ends, effects, history
<1>3. ASSUME NEW u \in Users, CreateTask(p, u)
      PROVE  EffectsCounted'
  <2>1. /\ task = NoTask /\ task' # NoTask /\ at[p] = "idle" /\ at'[p] = "activity"
        /\ ~ IsUpdate(req'[p]) /\ UNCHANGED <<activities, heat, changes, lost>>
    BY <1>3, RequestsAssumption DEF CreateTask, TaskTypes, IsUpdate
  <2>2. Made' = Made + 1
    BY <1>1, <1>2, <2>1, MadeTypes DEF GoesOn, Bit
  <2> QED
    BY <1>1, <1>2, <2>1, <2>2, EffectsMove DEF Upcoming, Heating, ToHeat, Bit
\* All others leave the task where it is.
<1>4. ASSUME task' # NoTask <=> task # NoTask
      PROVE  Made' + changes = Made + changes'
  BY <1>1, <1>2, <1>4, MadeTypes DEF GoesOn, Bit
<1>5. CASE Update(p)
  <2>1. /\ at[p] = "update" /\ at'[p] = "cache" /\ changes' = changes + 1
        /\ UNCHANGED <<activities, heat, lost>>
    BY <1>5 DEF Update, TaskTypes
  <2>2. task' # NoTask
    BY <2>1 DEF TaskTypes
  <2> QED
    BY <1>1, <1>2, <1>4, <2>1, <2>2, EffectsMove DEF Upcoming, Heating, ToHeat, Bit
<1>6. CASE DelCache(p)
  <2>1. /\ at[p] = "cache" /\ at'[p] = "activity" /\ UNCHANGED <<task, req>>
        /\ IsUpdate(req[p]) /\ IsUpdate(req'[p])
        /\ UNCHANGED <<activities, heat, changes, lost>>
    BY <1>6 DEF DelCache, TaskTypes, IsUpdate
  <2> QED
    BY <1>1, <1>2, <1>4, <2>1, EffectsMove DEF Upcoming, Heating, ToHeat, Bit
<1>7. CASE Activity(p)
  <2>1. /\ at[p] = "activity" /\ activities' = activities + 1
        /\ IF IsUpdate(req[p]) THEN at'[p] = "heat" ELSE at'[p] \in {"announce", "idle"}
        /\ UNCHANGED <<task, heat, changes, lost>>
    BY <1>7 DEF Activity, TaskTypes
  <2> QED
    BY <1>1, <1>2, <1>4, <2>1, EffectsMove DEF Upcoming, Heating, ToHeat, Bit
<1>8. CASE IncreaseHeat(p)
  <2>1. /\ at[p] = "heat" /\ heat' = heat + 1 /\ at'[p] \in {"notify", "idle"}
        /\ UNCHANGED <<task, activities, changes, lost>>
    BY <1>8 DEF IncreaseHeat, TaskTypes
  <2> QED
    BY <1>1, <1>2, <1>4, <2>1, EffectsMove DEF Upcoming, Heating, ToHeat, Bit
<1>9. CASE Notify(p) \/ NotifyFails(p) \/ Enqueue(p) \/ Announce(p)
  <2>1. /\ at[p] \in {"notify", "enqueue", "announce"}
        /\ at'[p] \in {"enqueue", "announce", "idle"}
        /\ UNCHANGED <<task, activities, heat, changes, lost>>
    BY <1>9 DEF Notify, NotifyFails, Enqueue, Announce, TaskTypes
  <2> QED
    BY <1>1, <1>2, <1>4, <2>1, EffectsMove DEF Upcoming, Heating, ToHeat, Bit
<1>10. CASE RequestFails(p) \/ CommentFails(p)
  <2>1. /\ at'[p] = "idle" /\ lost' = lost + 1
        /\ UNCHANGED <<task, activities, heat, changes>>
    BY <1>10 DEF RequestFails, CommentFails, TaskTypes
  <2> QED
    BY <1>1, <1>2, <1>4, <2>1, EffectsMove DEF Upcoming, Heating, ToHeat, Bit
<1> QED
  BY <1>3, <1>5, <1>6, <1>7, <1>8, <1>9, <1>10 DEF GoesOn

LEMMA CommentEffects ==
  ASSUME TaskTypes, TaskTypes', FreshCalls, FreshCalls', EffectsCounted, NEW p \in Procs,
         Comment(p) \/ Starts(p)
  PROVE  EffectsCounted'
<1>1. /\ Made \in Nat /\ Made' \in Nat
      /\ {activities, heat, changes, lost} \subseteq Nat
  BY MadeTypes DEF TaskTypes
<1>2. CASE Comment(p)
  <2> DEFINE c == [call |-> req[p].call, actor |-> req[p].actor,
                   assignee |-> req[p].row.assignee, mentions |-> mentions[p]]
  <2>1. /\ at[p] = "comment" /\ at' = [at EXCEPT ![p] = "activity"]
        /\ comments' = comments \cup {c}
        /\ UNCHANGED <<task, req, activities, heat, changes, lost>>
    BY <1>2 DEF Comment, Trip, history
  <2>2. c.call = req[p].call
    OBVIOUS
  <2> HIDE DEF c
  <2>3. Cardinality(comments') = Cardinality(comments) + 1 /\ Cardinality(comments) \in Nat
    BY <2>1, <2>2, FS_AddElement, FS_CardinalityType DEF FreshCalls, Pending
  <2>4. Made' = Made + 1
    BY <1>1, <2>1, <2>3 DEF Made, Bit
  <2>5. /\ \A q \in Procs \ {p} : at'[q] = at[q] /\ req'[q] = req[q]
        /\ at'[p] = "activity" /\ ~ IsUpdate(req'[p])
    BY <2>1 DEF TaskTypes, IsUpdate
  <2> QED
    BY <1>1, <2>1, <2>4, <2>5, EffectsMove DEF Upcoming, Heating, ToHeat, Bit
<1>3. CASE Starts(p)
  <2>1. /\ at[p] = "idle" /\ at'[p] \in {"update", "comment"}
        /\ UNCHANGED <<task, comments, activities, heat, changes, lost>>
        /\ \A q \in Procs \ {p} : at'[q] = at[q] /\ req'[q] = req[q]
    BY <1>3, StartMoves DEF effects, history
  <2>2. Made' = Made
    BY <2>1 DEF Made
  <2> QED
    BY <1>1, <2>1, <2>2, EffectsMove DEF Upcoming, Heating, ToHeat, Bit
<1> QED
  BY <1>2, <1>3

LEMMA TaskStarts ==
  ASSUME CommentsInit
  PROVE  TaskTypes
BY DEF CommentsInit, RequestsInit, HandlersInit, TaskTypes, Stages

LEMMA TaskInductive == CommentsSpec => [](TaskTypes /\ FreshCalls /\ EffectsCounted)
<1>1. CommentsInit => TaskTypes /\ FreshCalls /\ EffectsCounted
  <2> SUFFICES ASSUME CommentsInit
               PROVE  TaskTypes /\ FreshCalls /\ EffectsCounted
    OBVIOUS
  <2>1. TaskTypes
    BY TaskStarts
  <2>2. IsFiniteSet({}) /\ Cardinality({}) = 0
    BY FS_EmptySet
  <2>3. FreshCalls
    BY <2>2 DEF CommentsInit, RequestsInit, HandlersInit, FreshCalls, Pending
  <2>4. Upcoming = {} /\ Heating = {} /\ ToHeat = {} /\ Made = 0
    BY <2>2 DEF CommentsInit, RequestsInit, HandlersInit, Upcoming, Heating, ToHeat, Made, Bit
  <2>5. EffectsCounted
    BY <2>2, <2>4 DEF CommentsInit, RequestsInit, EffectsCounted
  <2> QED
    BY <2>1, <2>3, <2>5
<1>2. TaskTypes /\ FreshCalls /\ EffectsCounted /\ [CommentsNext]_commentVars
        => TaskTypes' /\ FreshCalls' /\ EffectsCounted'
  <2> SUFFICES ASSUME TaskTypes, FreshCalls, EffectsCounted, [CommentsNext]_commentVars
               PROVE  TaskTypes' /\ FreshCalls' /\ EffectsCounted'
    OBVIOUS
  <2>1. TaskTypes' /\ FreshCalls'
    BY TaskTypesKept, FreshKept
  <2>2. CASE UNCHANGED commentVars
    BY <2>1, <2>2 DEF commentVars, requestVars, served, effects, history, EffectsCounted,
                      Upcoming, Heating, ToHeat, Made, IsUpdate
  <2>3. ASSUME NEW p \in Procs, Starts(p) \/ GoesOn(p) \/ Comment(p)
        PROVE  EffectsCounted'
    BY <2>1, <2>3, GoingOnEffects, CommentEffects
  <2> QED
    BY <2>1, <2>2, <2>3, StepsOfTasks
<1> QED
  BY <1>1, <1>2, PTL DEF CommentsSpec

\* Each change of the task, and each comment, is counted as an activity once, and
\* each change as heat, but for requests under way and those that ended early
\* (task.go UpdateTask, UpdateStatus, CreateTask; comment.go CreateComment).
THEOREM TaskEffectsOnce == CommentsSpec => []EffectsOnce
BY TaskInductive, EffectsAre, PTL

-----------------------------------------------------------------------------
(* The task's requests and comments: the notifications.                     *)

\* Notifications in hand were stored by the request that has them, and there are
\* some only after a comment's transaction and until the last one is announced.
NotesTypes ==
  /\ notes \in Seq(StoredNotes)
  /\ queued \in [Users -> Nat] /\ became \in [Users -> Nat]
  /\ held \in [Procs -> Seq(DOMAIN notes)]
  /\ \A p \in Procs :
       /\ \A i \in DOMAIN held[p] : notes[held[p][i]].call = req[p].call
       /\ held[p] # <<>> => at[p] = "announce" \/ (at[p] = "activity" /\ ~ IsUpdate(req[p]))

\* The sequences of ToldInOrder, and how often each user is in them.
LEMMA ToldCounted ==
  ASSUME NEW m \in Seq(Users), NEW S \in SUBSET (DOMAIN m), NEW x, NEW last \in SUBSET {x},
         last \subseteq Users, NEW told \in ToldInOrder(m, S, last)
  PROVE  /\ told \in Seq(Users)
         /\ \A i \in DOMAIN told : told[i] \in last \/ \E k \in S : told[i] = m[k]
         /\ \A u \in Users :
              Cardinality({i \in DOMAIN told : told[i] = u})
                = Cardinality({k \in S : m[k] = u}) + Bit(u \in last)
<1>1. PICK f \in Bijection(1..Cardinality(S), S) :
        told = [k \in DOMAIN f |-> m[f[k]]] \o SetToSeq(last)
  BY DEF ToldInOrder
<1> DEFINE n == Cardinality(S)
           s == [k \in 1..n |-> m[f[k]]]
           t == SetToSeq(last)
<1>2. IsFiniteSet(S) /\ n \in Nat
  <2>1. IsFiniteSet(1..Len(m)) /\ DOMAIN m = 1..Len(m)
    BY FS_Interval
  <2> QED
    BY <2>1, FS_Subset, FS_CardinalityType
<1>3. /\ f \in [1..n -> S] /\ \A a, b \in 1..n : f[a] = f[b] => a = b
      /\ \A k \in S : \E i \in 1..n : f[i] = k
  BY DEF Bijection, Injection, Surjection, IsInjective
<1>4. s \in Seq(Users) /\ Len(s) = n
  BY <1>2, <1>3
<1>5. t \in Seq(Users) /\ Len(t) = Bit(last # {}) /\ \A i \in 1..Len(t) : t[i] \in last
  <2>1. CASE last = {}
    <3>1. Cardinality(last) = 0
      BY <2>1, FS_EmptySet
    <3>2. <<>> \in [1..0 -> last] /\ IsInjective(<<>>)
      BY DEF IsInjective
    <3>3. t \in [1..0 -> last]
      BY <3>1, <3>2 DEF SetToSeq
    <3> HIDE DEF t
    <3>4. t \in Seq(Users) /\ Len(t) = 0
      BY <3>3
    <3> QED
      BY <2>1, <3>4 DEF Bit
  <2>2. CASE last = {x}
    <3>1. Cardinality(last) = 1
      BY <2>2, FS_Singleton
    <3>2. [i \in 1..1 |-> x] \in [1..1 -> last] /\ IsInjective([i \in 1..1 |-> x])
      BY <2>2 DEF IsInjective
    <3>3. t \in [1..1 -> last]
      BY <3>1, <3>2 DEF SetToSeq
    <3> HIDE DEF t
    <3>4. PICK e \in last : t = <<e>>
      BY <3>3
    <3> QED
      BY <2>2, <3>4 DEF Bit
  <2> QED
    BY <2>1, <2>2
<1>6. told = s \o t
  BY <1>1, <1>3
<1> HIDE DEF s, t, n
<1>7. /\ told \in Seq(Users) /\ DOMAIN told = 1..(n + Len(t))
      /\ \A i \in 1..n : told[i] = s[i]
      /\ \A i \in (n + 1)..(n + Len(t)) : told[i] = t[i - n]
  BY <1>2, <1>4, <1>5, <1>6
<1>8. \A i \in 1..n : f[i] \in S /\ told[i] = m[f[i]]
  BY <1>3, <1>7 DEF s
<1>9. ASSUME NEW i \in DOMAIN told
      PROVE  told[i] \in last \/ \E k \in S : told[i] = m[k]
  <2>1. CASE i \in 1..n
    BY <1>8, <2>1
  <2>2. CASE i \in (n + 1)..(n + Len(t))
    <3>1. i - n \in 1..Len(t)
      BY <1>2, <1>5, <2>2
    <3> QED
      BY <1>5, <1>7, <2>2, <3>1
  <2> QED
    BY <1>2, <1>5, <1>7, <2>1, <2>2
<1>10. ASSUME NEW u \in Users
       PROVE  Cardinality({i \in DOMAIN told : told[i] = u})
                = Cardinality({k \in S : m[k] = u}) + Bit(u \in last)
  <2> DEFINE P == {i \in 1..n : m[f[i]] = u}
             Q == {k \in S : m[k] = u}
             g == [i \in P |-> f[i]]
             R == {i \in DOMAIN told : told[i] = u}
  <2>1. g \in Bijection(P, Q)
    <3>1. g \in [P -> Q]
      BY <1>3
    <3>2. \A a, b \in P : g[a] = g[b] => a = b
      BY <1>3
    <3>3. \A k \in Q : \E i \in P : g[i] = k
      BY <1>3
    <3> QED
      BY <3>1, <3>2, <3>3 DEF Bijection, Injection, Surjection, IsInjective
  <2>2. IsFiniteSet(P)
    <3>1. IsFiniteSet(1..n)
      BY <1>2, FS_Interval
    <3> QED
      BY <3>1, FS_Subset
  <2>3. Cardinality(P) = Cardinality(Q) /\ Cardinality(P) \in Nat
    BY <2>1, <2>2, FS_Bijection, FS_CardinalityType DEF ExistsBijection
  <2>4. CASE u \in last
    <3>1. Len(t) = 1 /\ t[1] = u
      BY <1>5, <2>4 DEF Bit
    <3>2. R = P \cup {n + 1} /\ n + 1 \notin P
      BY <1>2, <1>7, <1>8, <3>1
    <3>3. Cardinality(R) = Cardinality(P) + 1
      BY <2>2, <3>2, FS_AddElement
    <3> QED
      BY <2>3, <2>4, <3>3 DEF Bit, R, Q
  <2>5. CASE u \notin last
    <3>1. \A i \in (n + 1)..(n + Len(t)) : told[i] # u
      <4> SUFFICES ASSUME NEW i \in (n + 1)..(n + Len(t))
                   PROVE  told[i] # u
        OBVIOUS
      <4>1. i - n \in 1..Len(t)
        BY <1>2, <1>5
      <4> QED
        BY <1>5, <1>7, <2>5, <4>1
    <3>2. R = P
      BY <1>2, <1>5, <1>7, <1>8, <3>1
    <3> QED
      <4>1. Cardinality(R) = Cardinality(Q) /\ Cardinality(Q) \in Nat /\ Bit(u \in last) = 0
        BY <2>3, <2>5, <3>2 DEF Bit
      <4> QED
        BY <4>1 DEF R, Q
  <2> QED
    BY <2>4, <2>5
<1> QED
  BY <1>7, <1>9, <1>10

\* The steps that store and announce nothing.
QuietStep(p) ==
  \/ Starts(p)
  \/ /\ \/ \E u \in Users : CreateTask(p, u)
        \/ Update(p) \/ DelCache(p) \/ Activity(p) \/ IncreaseHeat(p) \/ Enqueue(p)
     /\ UNCHANGED comments

LEMMA QuietHands ==
  ASSUME TaskTypes, NotesTypes, NEW p \in Procs, QuietStep(p)
  PROVE  /\ UNCHANGED <<notes, unread, held, rejected, lost>>
         /\ \A q \in Procs \ {p} : at'[q] = at[q] /\ req'[q] = req[q]
         /\ held[p] = <<>>
              \/ (at'[p] = "announce" /\ req' = req)
<1>0. /\ at[p] \notin {"activity", "announce"} => held[p] = <<>>
      /\ at[p] = "activity" /\ IsUpdate(req[p]) => held[p] = <<>>
      /\ held = [held EXCEPT ![p] = held[p]]
  BY DEF NotesTypes
<1> USE DEF TaskTypes, Trip, effects
<1>1. CASE Starts(p)
  BY <1>0, <1>1, StartMoves
<1>2. ASSUME NEW u \in Users, CreateTask(p, u)
      PROVE  /\ at[p] = "idle" /\ UNCHANGED <<notes, unread, held, rejected, lost>>
             /\ \A q \in Procs \ {p} : at'[q] = at[q] /\ req'[q] = req[q]
  BY <1>2 DEF CreateTask
<1>3. CASE Update(p) \/ DelCache(p)
  BY <1>0, <1>3 DEF Update, DelCache
<1>4. CASE IncreaseHeat(p) \/ Enqueue(p)
  <2>1. held[p] = <<>>
    BY <1>0, <1>4 DEF IncreaseHeat, Enqueue
  <2> QED
    BY <1>0, <1>4, <2>1 DEF IncreaseHeat, Enqueue, Done, Ends
<1>5. CASE Activity(p)
  <2>1. CASE held[p] = <<>>
    BY <1>0, <1>5, <2>1 DEF Activity, Done, Ends
  <2>2. CASE held[p] # <<>>
    BY <1>0, <1>5, <2>2 DEF Activity
  <2> QED
    BY <2>1, <2>2
<1> QED
  BY <1>0, <1>1, <1>2, <1>3, <1>4, <1>5 DEF QuietStep

\* What Notify, NotifyFails and Comment store belongs to the request.
LEMMA StoredByRequest ==
  ASSUME TaskTypes, NotesTypes, NEW p \in Procs, at[p] # "idle"
  PROVE  /\ \A u \in Receivers(req[p]) : Note(req[p], u) \in StoredNotes /\ u \in Users
         /\ \A u \in Users : Note(req[p], u) \in StoredNotes
<1>1. req[p] \in ServedRequests
  BY DEF TaskTypes
<1>2. Receivers(req[p]) \subseteq Users
  BY <1>1, ColumnKinds DEF Receivers, ServedRequests, Rows, StatusColumns, EditColumns, NoColumns
<1>3. \A u \in Users : Note(req[p], u) \in StoredNotes
  BY <1>1 DEF Note, StoredNotes, ServedRequests
<1> QED
  BY <1>2, <1>3

\* The transaction of a comment stores new, which tells who Tells says.
LEMMA CommentStores ==
  ASSUME TaskTypes, NotesTypes, NEW p \in Procs, Comment(p)
  PROVE  \E told \in Tells(req[p], mentions[p]), new \in Seq(StoredNotes) :
           /\ told \in Seq(Users) /\ Len(new) = Len(told)
           /\ \A i \in 1..Len(new) : new[i] = Note(req[p], told[i])
           /\ notes' = notes \o new
           /\ held' = [held EXCEPT ![p] = held'[p]]
           /\ held'[p] \in Seq(Nat) /\ Len(held'[p]) = Len(new)
           /\ \A i \in 1..Len(new) : held'[p][i] = Len(notes) + i
<1> DEFINE r == req[p]  m == mentions[p]
<1>1. r \in ServedRequests /\ m \in Seq(Users) /\ at[p] = "comment"
  BY DEF Comment, Trip, TaskTypes
<1>2. PICK told \in Tells(r, m) :
        /\ notes' = notes \o [i \in DOMAIN told |-> Note(r, told[i])]
        /\ held' = [held EXCEPT ![p] = [i \in DOMAIN told |-> Len(notes) + i]]
  BY DEF Comment
<1>3. told \in Seq(Users)
  <2> DEFINE S == {i \in DOMAIN m : m[i] # r.actor}
             last == {r.row.assignee} \ ({Nobody, r.actor} \cup ToSet(m))
  <2>1. S \in SUBSET DOMAIN m /\ last \in SUBSET {r.row.assignee} /\ last \subseteq Users
    BY <1>1 DEF ServedRequests, Rows
  <2>2. told \in ToldInOrder(m, S, last)
    BY <1>2 DEF Tells
  <2> HIDE DEF S, last
  <2> QED
    BY <1>1, <2>1, <2>2, ToldCounted
<1> DEFINE new == [i \in DOMAIN told |-> Note(r, told[i])]
<1>4. new \in Seq(StoredNotes) /\ Len(new) = Len(told)
      /\ \A i \in 1..Len(new) : new[i] = Note(r, told[i])
  <2>1. \A u \in Users : Note(r, u) \in StoredNotes
    BY <1>1, StoredByRequest
  <2> QED
    BY <1>3, <2>1
<1>5. Len(notes) \in Nat
  BY DEF NotesTypes
<1>6. /\ held' = [held EXCEPT ![p] = held'[p]]
      /\ held'[p] = [i \in DOMAIN told |-> Len(notes) + i]
  BY <1>2 DEF NotesTypes
<1>7. /\ held'[p] \in Seq(Nat) /\ Len(held'[p]) = Len(new)
      /\ \A i \in 1..Len(new) : held'[p][i] = Len(notes) + i
  BY <1>3, <1>4, <1>5, <1>6
<1>8. notes' = notes \o new
  BY <1>2
<1> QED
  BY <1>2, <1>3, <1>4, <1>6, <1>7, <1>8

LEMMA TailOf ==
  ASSUME NEW T, NEW s \in Seq(T), Len(s) > 1
  PROVE  /\ Tail(s) \in Seq(T)
         /\ \A i \in DOMAIN Tail(s) : i + 1 \in DOMAIN s /\ Tail(s)[i] = s[i + 1]
OBVIOUS

\* What is appended, and where it is then.
LEMMA Appended ==
  ASSUME NEW T, NEW s \in Seq(T), NEW t \in Seq(T)
  PROVE  /\ s \o t \in Seq(T) /\ DOMAIN s \subseteq DOMAIN (s \o t)
         /\ DOMAIN (s \o t) = 1..(Len(s) + Len(t)) /\ Len(s) \in Nat /\ Len(t) \in Nat
         /\ \A n \in DOMAIN s : (s \o t)[n] = s[n]
         /\ \A i \in 1..Len(t) :
              Len(s) + i \in DOMAIN (s \o t) /\ (s \o t)[Len(s) + i] = t[i]
OBVIOUS

LEMMA Shifted ==
  ASSUME NEW n \in Nat, NEW k \in Nat, NEW h \in Seq(Nat), Len(h) = n,
         \A i \in 1..n : h[i] = k + i, NEW D, \A i \in 1..n : k + i \in D
  PROVE  h \in Seq(D) /\ DOMAIN h = 1..n
OBVIOUS

\* It is enough to look at p, and at what is added to the table.
LEMMA NotesTypesFrom ==
  ASSUME NotesTypes, NEW p \in Procs,
         notes' \in Seq(StoredNotes), DOMAIN notes \subseteq DOMAIN notes',
         \A n \in DOMAIN notes : notes'[n] = notes[n],
         queued' \in [Users -> Nat], became' \in [Users -> Nat],
         NEW h \in Seq(DOMAIN notes'), held' = [held EXCEPT ![p] = h],
         \A i \in DOMAIN h : notes'[h[i]].call = req'[p].call,
         h # <<>> => at'[p] = "announce" \/ (at'[p] = "activity" /\ ~ IsUpdate(req'[p])),
         \A q \in Procs \ {p} : at'[q] = at[q] /\ req'[q] = req[q]
  PROVE  NotesTypes'
<1>1. held'[p] = h /\ \A q \in Procs \ {p} : held'[q] = held[q]
  BY DEF NotesTypes
<1>2. \A q \in Procs : held[q] \in Seq(DOMAIN notes')
  BY DEF NotesTypes
<1>3. held' \in [Procs -> Seq(DOMAIN notes')]
  BY <1>2 DEF NotesTypes
<1>4. ASSUME NEW q \in Procs \ {p}
      PROVE  /\ \A i \in DOMAIN held'[q] : notes'[held'[q][i]].call = req'[q].call
             /\ held'[q] # <<>> =>
                  at'[q] = "announce" \/ (at'[q] = "activity" /\ ~ IsUpdate(req'[q]))
  <2>1. held[q] \in Seq(DOMAIN notes) /\ held'[q] = held[q] /\ req'[q] = req[q] /\ at'[q] = at[q]
    BY <1>1 DEF NotesTypes
  <2>2. \A i \in DOMAIN held[q] : held[q][i] \in DOMAIN notes
    BY <2>1
  <2> QED
    BY <2>1, <2>2 DEF NotesTypes, IsUpdate
<1>5. \A q \in Procs :
        /\ \A i \in DOMAIN held'[q] : notes'[held'[q][i]].call = req'[q].call
        /\ held'[q] # <<>> =>
             at'[q] = "announce" \/ (at'[q] = "activity" /\ ~ IsUpdate(req'[q]))
  BY <1>1, <1>4
<1> QED
  BY <1>3, <1>5 DEF NotesTypes, IsUpdate

LEMMA NotesTypesKept ==
  ASSUME TaskTypes, NotesTypes, [CommentsNext]_commentVars
  PROVE  NotesTypes'
<1>1. CASE UNCHANGED commentVars
  BY <1>1 DEF NotesTypes, commentVars, requestVars, served, effects, history, IsUpdate
<1>2. ASSUME NEW p \in Procs, Starts(p) \/ GoesOn(p) \/ Comment(p)
      PROVE  queued' \in [Users -> Nat] /\ became' \in [Users -> Nat]
  <2>1. CASE Starts(p)
    BY <2>1, StartMoves DEF NotesTypes, effects, history
  <2>2. CASE Comment(p)
    BY <2>2 DEF Comment, NotesTypes, history
  <2>3. CASE GoesOn(p)
    <3>1. ASSUME NEW u \in Users, CreateTask(p, u)
          PROVE  queued' \in [Users -> Nat] /\ became' \in [Users -> Nat]
      <4>1. UNCHANGED <<queued, became>>
        BY <3>1 DEF CreateTask, effects, history
      <4> QED
        BY <4>1 DEF NotesTypes
    <3>2. CASE Update(p)
      BY <3>2 DEF Update, NotesTypes, effects
    <3>3. CASE Enqueue(p)
      <4>1. at[p] = "enqueue" /\ became' = became
        BY <3>3 DEF Enqueue, history
      <4>2. PICK u \in Users : queued' = [queued EXCEPT ![u] = @ + 1]
        BY <3>3, <4>1, StoredByRequest DEF Enqueue
      <4> QED
        BY <4>1, <4>2 DEF NotesTypes
    <3>4. CASE DelCache(p) \/ Activity(p) \/ IncreaseHeat(p) \/ Notify(p) \/ NotifyFails(p)
      <4>1. UNCHANGED <<queued, became>>
        BY <3>4 DEF DelCache, Activity, IncreaseHeat, Notify, NotifyFails, effects, history
      <4> QED
        BY <4>1 DEF NotesTypes
    <3>5. CASE Announce(p) \/ RequestFails(p) \/ CommentFails(p)
      <4>1. UNCHANGED <<queued, became>>
        BY <3>5 DEF Announce, RequestFails, CommentFails, effects, history
      <4> QED
        BY <4>1 DEF NotesTypes
    <3> QED
      BY <2>3, <3>1, <3>2, <3>3, <3>4, <3>5 DEF GoesOn
  <2> QED
    BY <1>2, <2>1, <2>2, <2>3
<1>3. ASSUME NEW p \in Procs, QuietStep(p)
      PROVE  NotesTypes'
  <2>1. /\ queued' \in [Users -> Nat] /\ became' \in [Users -> Nat]
    BY <1>2, <1>3 DEF QuietStep, GoesOn
  <2>2. /\ UNCHANGED <<notes, held>>
        /\ \A q \in Procs \ {p} : at'[q] = at[q] /\ req'[q] = req[q]
        /\ held[p] = <<>> \/ (at'[p] = "announce" /\ req' = req)
    BY <1>3, QuietHands
  <2>3. held' = [held EXCEPT ![p] = held[p]] /\ held[p] \in Seq(DOMAIN notes')
    BY <2>2 DEF NotesTypes
  <2>4. /\ \A i \in DOMAIN held[p] : notes'[held[p][i]].call = req'[p].call
        /\ held[p] # <<>> => at'[p] = "announce"
    BY <2>2 DEF NotesTypes
  <2>5. notes' \in Seq(StoredNotes)
    BY <2>2 DEF NotesTypes
  <2> QED
    BY <2>1, <2>2, <2>3, <2>4, <2>5, NotesTypesFrom
<1>4. ASSUME NEW p \in Procs, Notify(p)
      PROVE  NotesTypes'
  <2>1. PICK u \in Receivers(req[p]) : notes' = Append(notes, Note(req[p], u))
    BY <1>4 DEF Notify
  <2>2. /\ at[p] = "notify" /\ at' = [at EXCEPT ![p] = "announce"] /\ req' = req
        /\ held' = [held EXCEPT ![p] = <<Len(notes')>>]
    BY <1>4 DEF Notify, Trip
  <2>3. Note(req[p], u) \in StoredNotes /\ Note(req[p], u).call = req[p].call
    BY <2>2, StoredByRequest DEF Note
  <2>4. /\ notes' \in Seq(StoredNotes) /\ Len(notes') = Len(notes) + 1 /\ Len(notes) \in Nat
        /\ notes'[Len(notes')] = Note(req[p], u)
        /\ \A n \in DOMAIN notes : n \in DOMAIN notes' /\ notes'[n] = notes[n]
    BY <2>1, <2>3 DEF NotesTypes
  <2> DEFINE h == <<Len(notes')>>
  <2>5. h \in Seq(DOMAIN notes') /\ \A i \in DOMAIN h : notes'[h[i]].call = req'[p].call
    BY <2>2, <2>3, <2>4
  <2>6. at'[p] = "announce" /\ \A q \in Procs \ {p} : at'[q] = at[q] /\ req'[q] = req[q]
    BY <2>2 DEF TaskTypes
  <2>7. held' = [held EXCEPT ![p] = h]
    BY <2>2
  <2> HIDE DEF h
  <2>8. queued' \in [Users -> Nat] /\ became' \in [Users -> Nat]
    BY <1>4 DEF Notify, NotesTypes, history
  <2> QED
    BY <2>4, <2>5, <2>6, <2>7, <2>8, NotesTypesFrom
<1>5. ASSUME NEW p \in Procs, NotifyFails(p)
      PROVE  NotesTypes'
  <2>1. /\ at[p] = "notify" /\ at' = [at EXCEPT ![p] = "enqueue"] /\ req' = req /\ held' = held
        /\ held[p] = <<>> /\ held' = [held EXCEPT ![p] = <<>>]
    BY <1>5 DEF NotifyFails, Trip, NotesTypes
  <2>2. notes' = notes \/ \E u \in Receivers(req[p]) : notes' = Append(notes, Note(req[p], u))
    BY <1>5 DEF NotifyFails
  <2>3. /\ notes' \in Seq(StoredNotes) /\ DOMAIN notes \subseteq DOMAIN notes'
        /\ \A n \in DOMAIN notes : notes'[n] = notes[n]
    <3>1. notes \in Seq(StoredNotes)
      BY DEF NotesTypes
    <3>2. ASSUME NEW u \in Receivers(req[p]), notes' = Append(notes, Note(req[p], u))
          PROVE  /\ notes' \in Seq(StoredNotes) /\ DOMAIN notes \subseteq DOMAIN notes'
                 /\ \A n \in DOMAIN notes : notes'[n] = notes[n]
      <4>1. Note(req[p], u) \in StoredNotes
        BY <2>1, StoredByRequest
      <4> QED
        BY <3>1, <3>2, <4>1
    <3> QED
      BY <2>2, <3>1, <3>2
  <2>4. \A q \in Procs \ {p} : at'[q] = at[q] /\ req'[q] = req[q]
    BY <2>1 DEF TaskTypes
  <2>5. queued' \in [Users -> Nat] /\ became' \in [Users -> Nat]
    BY <1>5 DEF NotifyFails, NotesTypes, history
  <2>6. <<>> \in Seq(DOMAIN notes') /\ DOMAIN <<>> = {}
    OBVIOUS
  <2> QED
    BY <2>1, <2>3, <2>4, <2>5, <2>6, NotesTypesFrom
<1>6. ASSUME NEW p \in Procs, Announce(p) \/ RequestFails(p) \/ CommentFails(p)
      PROVE  NotesTypes'
  <2>1. notes' = notes /\ queued' \in [Users -> Nat] /\ became' \in [Users -> Nat]
    BY <1>6 DEF Announce, RequestFails, CommentFails, NotesTypes, effects, history
  <2>2. \A q \in Procs \ {p} : at'[q] = at[q] /\ req'[q] = req[q]
    BY <1>6 DEF Announce, RequestFails, CommentFails, Done, Ends, TaskTypes
  <2>3. CASE held' = [held EXCEPT ![p] = <<>>]
    <3>1. <<>> \in Seq(DOMAIN notes') /\ DOMAIN <<>> = {}
      OBVIOUS
    <3> QED
      BY <2>1, <2>2, <2>3, <3>1, NotesTypesFrom DEF NotesTypes
  <2>4. CASE at[p] = "announce" /\ held' = [held EXCEPT ![p] = Tail(@)] /\ Len(held[p]) > 1
             /\ UNCHANGED <<at, req>>
    <3> DEFINE h == Tail(held[p])
    <3>1. held[p] \in Seq(DOMAIN notes) /\ held' = [held EXCEPT ![p] = h]
      BY <2>4 DEF NotesTypes
    <3>2. h \in Seq(DOMAIN notes) /\ \A i \in DOMAIN h : i + 1 \in DOMAIN held[p] /\ h[i] = held[p][i + 1]
      BY <2>4, <3>1, TailOf
    <3> HIDE DEF h
    <3>3. \A i \in DOMAIN h : notes'[h[i]].call = req'[p].call
      BY <2>1, <2>4, <3>2 DEF NotesTypes
    <3> QED
      BY <2>1, <2>2, <2>4, <3>1, <3>2, <3>3, NotesTypesFrom DEF NotesTypes
  <2> QED
    BY <1>6, <2>3, <2>4 DEF Announce, RequestFails, CommentFails, Done
<1>7. ASSUME NEW p \in Procs, Comment(p)
      PROVE  NotesTypes'
  <2>0. PICK told \in Tells(req[p], mentions[p]) : \E new \in Seq(StoredNotes) :
           /\ told \in Seq(Users) /\ Len(new) = Len(told)
           /\ \A i \in 1..Len(new) : new[i] = Note(req[p], told[i])
           /\ notes' = notes \o new
           /\ held' = [held EXCEPT ![p] = held'[p]]
           /\ held'[p] \in Seq(Nat) /\ Len(held'[p]) = Len(new)
           /\ \A i \in 1..Len(new) : held'[p][i] = Len(notes) + i
    BY <1>7, CommentStores
  <2>1. PICK new \in Seq(StoredNotes) :
           /\ \A i \in 1..Len(new) : new[i] = Note(req[p], told[i])
           /\ notes' = notes \o new
           /\ held' = [held EXCEPT ![p] = held'[p]]
           /\ held'[p] \in Seq(Nat) /\ Len(held'[p]) = Len(new)
           /\ \A i \in 1..Len(new) : held'[p][i] = Len(notes) + i
    BY <2>0
  <2>2. /\ notes' \in Seq(StoredNotes) /\ DOMAIN notes \subseteq DOMAIN notes'
        /\ \A n \in DOMAIN notes : notes'[n] = notes[n]
        /\ \A i \in 1..Len(new) :
             Len(notes) + i \in DOMAIN notes' /\ notes'[Len(notes) + i] = new[i]
    <3>1. notes \in Seq(StoredNotes)
      BY DEF NotesTypes
    <3> QED
      BY <2>1, <3>1, Appended
  <2>3. /\ at[p] = "comment" /\ at' = [at EXCEPT ![p] = "activity"] /\ req' = req
        /\ queued' = queued /\ became' = became
    BY <1>7 DEF Comment, Trip, history
  <2>4. /\ at'[p] = "activity" /\ ~ IsUpdate(req'[p])
        /\ \A q \in Procs \ {p} : at'[q] = at[q] /\ req'[q] = req[q]
    BY <2>3 DEF TaskTypes, IsUpdate
  <2> DEFINE h == held'[p]
  <2>5. h \in Seq(Nat) /\ Len(h) = Len(new) /\ \A i \in 1..Len(new) : h[i] = Len(notes) + i
    BY <2>1
  <2>10. \A i \in 1..Len(new) : new[i] = Note(req[p], told[i])
    BY <2>1
  <2>11. held' = [held EXCEPT ![p] = h]
    BY <2>1
  <2> HIDE DEF h
  <2>6. h \in Seq(DOMAIN notes') /\ DOMAIN h = 1..Len(new)
    <3>1. Len(new) \in Nat /\ Len(notes) \in Nat
      BY DEF NotesTypes
    <3>2. \A i \in 1..Len(new) : Len(notes) + i \in DOMAIN notes'
      BY <2>2
    <3> QED
      BY <2>5, <3>1, <3>2, Shifted
  <2>7. \A i \in 1..Len(new) : new[i].call = req[p].call
    <3> SUFFICES ASSUME NEW i \in 1..Len(new)
                 PROVE  new[i].call = req[p].call
      OBVIOUS
    <3>1. new[i] = Note(req[p], told[i])
      BY <2>10
    <3> QED
      BY <3>1 DEF Note
  <2>8. \A i \in DOMAIN h : notes'[h[i]].call = req'[p].call
    BY <2>2, <2>3, <2>5, <2>6, <2>7
  <2>9. held' = [held EXCEPT ![p] = h] /\ queued' \in [Users -> Nat] /\ became' \in [Users -> Nat]
    BY <2>3, <2>11 DEF NotesTypes
  <2> QED
    BY <2>2, <2>4, <2>6, <2>8, <2>9, NotesTypesFrom
<1>8. \/ UNCHANGED commentVars
      \/ \E p \in Procs : \/ QuietStep(p) \/ Notify(p) \/ NotifyFails(p) \/ Comment(p)
                          \/ Announce(p) \/ RequestFails(p) \/ CommentFails(p)
  BY StepsOfTasks DEF QuietStep, GoesOn
<1> QED
  BY <1>1, <1>3, <1>4, <1>5, <1>6, <1>7, <1>8

\* The calls whose notifications are neither announced nor in hand.
InHand == UNION {ToSet(held[p]) : p \in Procs}
MissingCalls == {notes[n].call : n \in DOMAIN notes \ (unread \cup InHand)}

MissingCounted == IsFiniteSet(MissingCalls) /\ Cardinality(MissingCalls) <= lost + rejected

\* p's step adds the calls in C at the most.
LEMMA MissingFrom ==
  ASSUME NotesTypes, NEW p \in Procs, NEW C,
         DOMAIN notes \subseteq DOMAIN notes', \A n \in DOMAIN notes : notes'[n] = notes[n],
         unread \subseteq unread', \A q \in Procs \ {p} : held'[q] = held[q],
         \A n \in DOMAIN notes' :
           \/ n \in unread' \/ n \in ToSet(held'[p]) \/ notes'[n].call \in C
           \/ n \in DOMAIN notes \ (unread \cup ToSet(held[p]))
  PROVE  MissingCalls' \subseteq MissingCalls \cup C
<1> SUFFICES ASSUME NEW n \in DOMAIN notes' \ (unread' \cup InHand')
             PROVE  notes'[n].call \in MissingCalls \cup C
  BY DEF MissingCalls
<1>1. \A q \in Procs : n \notin ToSet(held'[q])
  BY DEF InHand
<1>2. CASE n \in DOMAIN notes \ (unread \cup ToSet(held[p]))
  <2>1. n \notin InHand
    BY <1>1, <1>2 DEF InHand
  <2> QED
    BY <1>2, <2>1 DEF MissingCalls
<1> QED
  BY <1>1, <1>2

LEMMA AtMostOneMore ==
  ASSUME NEW A, NEW B, IsFiniteSet(A), NEW k \in Nat, NEW l \in Nat, Cardinality(A) <= k,
         \/ B \subseteq A /\ k <= l
         \/ \E c : B \subseteq A \cup {c} /\ k + 1 <= l
  PROVE  IsFiniteSet(B) /\ Cardinality(B) <= l
<1>1. Cardinality(A) \in Nat
  BY FS_CardinalityType
<1>2. CASE B \subseteq A /\ k <= l
  <2>1. IsFiniteSet(B) /\ Cardinality(B) <= Cardinality(A)
    BY <1>2, FS_Subset
  <2>2. Cardinality(B) \in Nat
    BY <2>1, FS_CardinalityType
  <2> QED
    BY <1>1, <1>2, <2>1, <2>2
<1>3. ASSUME NEW c, B \subseteq A \cup {c}, k + 1 <= l
      PROVE  IsFiniteSet(B) /\ Cardinality(B) <= l
  <2>1. IsFiniteSet(A \cup {c}) /\ Cardinality(A \cup {c}) <= Cardinality(A) + 1
    BY <1>1, FS_AddElement
  <2>2. IsFiniteSet(B) /\ Cardinality(B) <= Cardinality(A \cup {c})
    BY <1>3, <2>1, FS_Subset
  <2>3. Cardinality(B) \in Nat /\ Cardinality(A \cup {c}) \in Nat
    BY <2>1, <2>2, FS_CardinalityType
  <2> QED
    BY <1>1, <1>3, <2>1, <2>2, <2>3
<1> QED
  BY <1>2, <1>3

LEMMA MissingKept ==
  ASSUME TaskTypes, TaskTypes', NotesTypes, NotesTypes', MissingCounted,
         [CommentsNext]_commentVars
  PROVE  MissingCounted'
<1>0. {lost, rejected, lost', rejected'} \subseteq Nat
  BY DEF TaskTypes
<1>1. ASSUME \/ MissingCalls' \subseteq MissingCalls /\ lost + rejected <= lost' + rejected'
             \/ \E c : /\ MissingCalls' \subseteq MissingCalls \cup {c}
                       /\ lost + rejected + 1 <= lost' + rejected'
      PROVE  MissingCounted'
  <2> DEFINE A == MissingCalls   B == MissingCalls'   k == lost + rejected   l == lost' + rejected'
  <2>1. k \in Nat /\ l \in Nat /\ IsFiniteSet(A) /\ Cardinality(A) <= k
    BY <1>0 DEF MissingCounted
  <2>2. (B \subseteq A /\ k <= l) \/ \E c : B \subseteq A \cup {c} /\ k + 1 <= l
    BY <1>1
  <2> HIDE DEF A, B, k, l
  <2>3. IsFiniteSet(B) /\ Cardinality(B) <= l
    BY <2>1, <2>2, AtMostOneMore
  <2> QED
    BY <2>3 DEF MissingCounted, B, l
<1>2. CASE UNCHANGED commentVars
  <2>1. UNCHANGED <<notes, unread, held, lost, rejected>>
    BY <1>2 DEF commentVars, requestVars, served, effects
  <2> QED
    BY <2>1 DEF MissingCounted, MissingCalls, InHand
<1>3. ASSUME NEW p \in Procs, QuietStep(p)
      PROVE  MissingCounted'
  <2>1. UNCHANGED <<notes, unread, held, rejected, lost>>
    BY <1>3, QuietHands
  <2> QED
    BY <2>1 DEF MissingCounted, MissingCalls, InHand
<1>4. ASSUME NEW p \in Procs, Notify(p)
      PROVE  MissingCounted'
  <2>1. /\ UNCHANGED <<unread, rejected, lost>> /\ at[p] = "notify"
        /\ held' = [held EXCEPT ![p] = <<Len(notes')>>]
    BY <1>4 DEF Notify, Trip
  <2>2. PICK e : notes' = Append(notes, e)
    BY <1>4 DEF Notify
  <2>3. notes \in Seq(StoredNotes) /\ notes' \in Seq(StoredNotes)
    BY DEF NotesTypes
  <2>4. /\ DOMAIN notes \subseteq DOMAIN notes' /\ \A n \in DOMAIN notes : notes'[n] = notes[n]
        /\ \A n \in DOMAIN notes' : n \in DOMAIN notes \/ n = Len(notes')
    BY <2>2, <2>3
  <2>5. /\ held[p] = <<>> /\ held'[p] = <<Len(notes')>>
        /\ \A q \in Procs \ {p} : held'[q] = held[q]
    BY <2>1 DEF NotesTypes
  <2>6. Len(notes') \in ToSet(held'[p]) /\ ToSet(held[p]) = {}
    BY <2>5 DEF ToSet
  <2>7. MissingCalls' \subseteq MissingCalls \cup {}
    BY <2>1, <2>4, <2>5, <2>6, MissingFrom
  <2> QED
    BY <1>0, <1>1, <2>1, <2>7
<1>5. ASSUME NEW p \in Procs, NotifyFails(p)
      PROVE  MissingCounted'
  <2>1. UNCHANGED <<unread, held, lost>> /\ rejected' = rejected + 1 /\ at[p] = "notify"
    BY <1>5 DEF NotifyFails, Trip
  <2>2. notes' = notes \/ \E u \in Receivers(req[p]) : notes' = Append(notes, Note(req[p], u))
    BY <1>5 DEF NotifyFails
  <2>3. notes \in Seq(StoredNotes) /\ notes' \in Seq(StoredNotes)
    BY DEF NotesTypes
  <2>4. /\ DOMAIN notes \subseteq DOMAIN notes' /\ \A n \in DOMAIN notes : notes'[n] = notes[n]
        /\ \A n \in DOMAIN notes' : n \in DOMAIN notes \/ notes'[n].call = req[p].call
    <3>1. CASE notes' = notes
      BY <3>1
    <3>2. ASSUME NEW u, notes' = Append(notes, Note(req[p], u))
          PROVE  /\ DOMAIN notes \subseteq DOMAIN notes'
                 /\ \A n \in DOMAIN notes : notes'[n] = notes[n]
                 /\ \A n \in DOMAIN notes' : n \in DOMAIN notes \/ notes'[n].call = req[p].call
      <4>1. Note(req[p], u).call = req[p].call
        BY DEF Note
      <4> QED
        BY <2>3, <3>2, <4>1
    <3> QED
      BY <2>2, <3>1, <3>2
  <2>5. held[p] = <<>> /\ ToSet(held[p]) = {}
    <3>1. held[p] = <<>>
      BY <2>1 DEF NotesTypes
    <3> QED
      BY <3>1 DEF ToSet
  <2>6. MissingCalls' \subseteq MissingCalls \cup {req[p].call}
    BY <2>1, <2>4, <2>5, MissingFrom
  <2> QED
    BY <1>0, <1>1, <2>1, <2>6
<1>6. ASSUME NEW p \in Procs, Announce(p)
      PROVE  MissingCounted'
  <2>1. /\ at[p] = "announce" /\ unread' = unread \cup {Head(held[p])}
        /\ UNCHANGED <<notes, lost, rejected>>
        /\ \/ Len(held[p]) > 1 /\ held' = [held EXCEPT ![p] = Tail(held[p])]
           \/ ~ (Len(held[p]) > 1) /\ held' = [held EXCEPT ![p] = <<>>]
    BY <1>6 DEF Announce, Done
  <2>2. held[p] \in Seq(DOMAIN notes)
    BY DEF NotesTypes
  <2>3. \A q \in Procs \ {p} : held'[q] = held[q]
    BY <2>1 DEF NotesTypes
  <2>4. ASSUME NEW n \in ToSet(held[p])
        PROVE  n \in unread' \/ n \in ToSet(held'[p])
    <3>1. PICK i \in DOMAIN held[p] : n = held[p][i]
      BY DEF ToSet
    <3>2. CASE i = 1
      BY <2>1, <2>2, <3>1, <3>2
    <3>3. CASE i # 1
      <4>1. /\ Len(held[p]) > 1 /\ i - 1 \in DOMAIN Tail(held[p])
            /\ Tail(held[p])[i - 1] = n
        BY <2>2, <3>1, <3>3
      <4>2. held'[p] = Tail(held[p])
        BY <2>1, <4>1 DEF NotesTypes
      <4> QED
        BY <4>1, <4>2 DEF ToSet
    <3> QED
      BY <3>2, <3>3
  <2>5. MissingCalls' \subseteq MissingCalls \cup {}
    BY <2>1, <2>3, <2>4, MissingFrom
  <2> QED
    BY <1>0, <1>1, <2>1, <2>5
<1>7. ASSUME NEW p \in Procs, RequestFails(p) \/ CommentFails(p)
      PROVE  MissingCounted'
  <2>1. UNCHANGED <<notes, unread, rejected>> /\ lost' = lost + 1
        /\ held' = [held EXCEPT ![p] = <<>>]
    BY <1>7 DEF RequestFails, CommentFails, Done, effects
  <2>2. \A q \in Procs \ {p} : held'[q] = held[q]
    BY <2>1 DEF NotesTypes
  <2>3. \A n \in ToSet(held[p]) : notes[n].call = req[p].call
    BY DEF NotesTypes, ToSet
  <2>4. MissingCalls' \subseteq MissingCalls \cup {req[p].call}
    <3>1. \A n \in DOMAIN notes' : n \in unread' \/ n \in ToSet(held'[p])
            \/ notes'[n].call \in {req[p].call} \/ n \in DOMAIN notes \ (unread \cup ToSet(held[p]))
      BY <2>1, <2>3
    <3>2. /\ DOMAIN notes \subseteq DOMAIN notes' /\ unread \subseteq unread'
          /\ \A n \in DOMAIN notes : notes'[n] = notes[n]
      BY <2>1
    <3> QED
      BY <2>2, <3>1, <3>2, MissingFrom
  <2> QED
    BY <1>0, <1>1, <2>1, <2>4
<1>8. ASSUME NEW p \in Procs, Comment(p)
      PROVE  MissingCounted'
  <2>1. PICK told \in Tells(req[p], mentions[p]) : \E new \in Seq(StoredNotes) :
           /\ told \in Seq(Users) /\ Len(new) = Len(told)
           /\ \A i \in 1..Len(new) : new[i] = Note(req[p], told[i])
           /\ notes' = notes \o new
           /\ held' = [held EXCEPT ![p] = held'[p]]
           /\ held'[p] \in Seq(Nat) /\ Len(held'[p]) = Len(new)
           /\ \A i \in 1..Len(new) : held'[p][i] = Len(notes) + i
    BY <1>8, CommentStores
  <2>2. PICK new \in Seq(StoredNotes) :
           /\ notes' = notes \o new
           /\ held' = [held EXCEPT ![p] = held'[p]]
           /\ held'[p] \in Seq(Nat) /\ Len(held'[p]) = Len(new)
           /\ \A i \in 1..Len(new) : held'[p][i] = Len(notes) + i
    BY <2>1
  <2>3. at[p] = "comment" /\ UNCHANGED <<unread, lost, rejected>>
    BY <1>8 DEF Comment, Trip
  <2>4. held[p] = <<>> /\ ToSet(held[p]) = {} /\ \A q \in Procs \ {p} : held'[q] = held[q]
    <3>1. held[p] = <<>> /\ \A q \in Procs \ {p} : held'[q] = held[q]
      BY <2>2, <2>3 DEF NotesTypes
    <3> QED
      BY <3>1 DEF ToSet
  <2>5. notes \in Seq(StoredNotes) /\ notes' = notes \o new
    BY <2>2 DEF NotesTypes
  <2>6. /\ DOMAIN notes \subseteq DOMAIN notes' /\ \A n \in DOMAIN notes : notes'[n] = notes[n]
        /\ DOMAIN notes' = 1..(Len(notes) + Len(new)) /\ Len(notes) \in Nat /\ Len(new) \in Nat
    BY <2>5, Appended
  <2> DEFINE h == held'[p]
  <2>7. h \in Seq(Nat) /\ Len(h) = Len(new) /\ \A i \in 1..Len(new) : h[i] = Len(notes) + i
    BY <2>2
  <2> HIDE DEF h
  <2>8. ASSUME NEW n \in DOMAIN notes' \ DOMAIN notes
        PROVE  n \in ToSet(h)
    <3>1. n - Len(notes) \in 1..Len(new) /\ DOMAIN h = 1..Len(new)
      BY <2>5, <2>6, <2>7
    <3>2. h[n - Len(notes)] = n
      BY <2>6, <2>7, <3>1
    <3> QED
      BY <3>1, <3>2 DEF ToSet
  <2>9. MissingCalls' \subseteq MissingCalls \cup {}
    BY <2>3, <2>4, <2>6, <2>8, MissingFrom DEF h
  <2> QED
    BY <1>0, <1>1, <2>3, <2>9
<1> QED
  BY <1>2, <1>3, <1>4, <1>5, <1>6, <1>7, <1>8, StepsOfTasks DEF QuietStep, GoesOn

\* A comment's notifications, and the ones of CommentNotesOnce.
Got(c, u)   == {n \in DOMAIN notes : notes[n].call = c.call /\ notes[n].to = u}
Named(c, u) == {i \in DOMAIN c.mentions : c.mentions[i] = u}
ToldAll(c)  ==
  \A u \in Users :
    Cardinality(Got(c, u)) =
      IF u = c.actor THEN 0
      ELSE IF Cardinality(Named(c, u)) > 0 THEN Cardinality(Named(c, u))
      ELSE Bit(u = c.assignee)

\* The notifications of a comment are all of its transaction.
NotesByCall ==
  /\ \A n \in DOMAIN notes : notes[n].call <= calls
  /\ \A p \in Procs : at[p] = "comment" => \A n \in DOMAIN notes : notes[n].call # req[p].call
  /\ \A c \in comments : ToldAll(c)

\* p adds notifications of its own call only.
LEMMA OthersNotes ==
  ASSUME TaskTypes, TaskTypes', FreshCalls, NotesByCall, NEW p \in Procs,
         DOMAIN notes \subseteq DOMAIN notes', \A n \in DOMAIN notes : notes'[n] = notes[n],
         \/ notes' = notes
         \/ Pending(p) /\ \A n \in DOMAIN notes' \ DOMAIN notes : notes'[n].call = req[p].call,
         calls' = calls, at'[p] # "comment",
         \A q \in Procs \ {p} : at'[q] = at[q] /\ req'[q] = req[q]
  PROVE  /\ \A n \in DOMAIN notes' : notes'[n].call <= calls'
         /\ \A q \in Procs : at'[q] = "comment" =>
              \A n \in DOMAIN notes' : notes'[n].call # req'[q].call
         /\ \A c \in comments : ToldAll(c)'
<1>1. ASSUME NEW n \in DOMAIN notes'
      PROVE  /\ notes'[n].call <= calls'
             /\ \A q \in Procs : at'[q] = "comment" => notes'[n].call # req'[q].call
             /\ \A c \in comments : n \notin DOMAIN notes => notes'[n].call # c.call
  <2>1. CASE n \in DOMAIN notes
    BY <2>1 DEF NotesByCall
  <2>2. CASE n \notin DOMAIN notes
    <3>1. Pending(p) /\ notes'[n].call = req[p].call
      BY <2>2
    <3>2. req[p].call <= calls /\ \A c \in comments : c.call # req[p].call
      BY <3>1 DEF FreshCalls
    <3>3. ASSUME NEW q \in Procs, at'[q] = "comment"
          PROVE  req'[q].call # req[p].call
      <4>1. q # p /\ at[q] = "comment" /\ req'[q] = req[q]
        BY <3>3
      <4>2. Pending(q)
        BY <4>1 DEF Pending
      <4> QED
        BY <3>1, <4>1, <4>2 DEF FreshCalls
    <3> QED
      BY <2>2, <3>1, <3>2, <3>3
  <2> QED
    BY <2>1, <2>2
<1>2. ASSUME NEW c \in comments
      PROVE  ToldAll(c)'
  <2>1. \A u \in Users : Got(c, u)' = Got(c, u)
    BY <1>1 DEF Got
  <2> QED
    BY <2>1 DEF NotesByCall, ToldAll, Named
<1> QED
  BY <1>1, <1>2

\* What the transaction of a comment tells.
LEMMA TransactionTells ==
  ASSUME TaskTypes, NotesTypes, NotesByCall, NEW p \in Procs, Comment(p), NEW c,
         c = [call |-> req[p].call, actor |-> req[p].actor,
              assignee |-> req[p].row.assignee, mentions |-> mentions[p]]
  PROVE  ToldAll(c)'
<1> DEFINE r == req[p]
           m == mentions[p]
           S == {i \in DOMAIN m : m[i] # r.actor}
           last == {r.row.assignee} \ ({Nobody, r.actor} \cup ToSet(m))
<1>1. /\ r \in ServedRequests /\ m \in Seq(Users) /\ at[p] = "comment"
  BY DEF Comment, Trip, TaskTypes
<1>2. PICK told \in Tells(r, m) : \E new \in Seq(StoredNotes) :
         /\ told \in Seq(Users) /\ Len(new) = Len(told)
         /\ \A i \in 1..Len(new) : new[i] = Note(r, told[i])
         /\ notes' = notes \o new
  BY CommentStores
<1>3. PICK new \in Seq(StoredNotes) :
         /\ told \in Seq(Users) /\ Len(new) = Len(told)
         /\ \A i \in 1..Len(new) : new[i] = Note(r, told[i])
         /\ notes' = notes \o new
  BY <1>2
<1>4. /\ notes \in Seq(StoredNotes)
      /\ \A n \in DOMAIN notes : notes[n].call # r.call
  BY <1>1 DEF NotesTypes, NotesByCall
<1>5. /\ S \in SUBSET DOMAIN m /\ last \in SUBSET {r.row.assignee} /\ last \subseteq Users
      /\ told \in ToldInOrder(m, S, last)
  BY <1>1, <1>2 DEF ServedRequests, Rows, Tells
<1> HIDE DEF S, last
<1>6. /\ told \in Seq(Users) /\ DOMAIN told = 1..Len(new)
      /\ \A u \in Users :
           Cardinality({i \in DOMAIN told : told[i] = u})
             = Cardinality({k \in S : m[k] = u}) + Bit(u \in last)
  <2>1. DOMAIN told = 1..Len(new)
    BY <1>3
  <2> QED
    BY <1>1, <1>3, <1>5, <2>1, ToldCounted
<1> DEFINE k == Len(notes)
<1>7. /\ DOMAIN notes' = 1..(k + Len(new)) /\ k \in Nat /\ Len(new) \in Nat
      /\ DOMAIN notes = 1..k
      /\ \A n \in DOMAIN notes : notes'[n] = notes[n]
      /\ \A i \in 1..Len(new) : notes'[k + i] = new[i]
  <2>1. /\ DOMAIN (notes \o new) = 1..(k + Len(new)) /\ k \in Nat /\ Len(new) \in Nat
        /\ \A n \in DOMAIN notes : (notes \o new)[n] = notes[n]
        /\ \A i \in 1..Len(new) : (notes \o new)[k + i] = new[i]
    BY <1>4, Appended
  <2>2. DOMAIN notes = 1..k
    BY <1>4
  <2>3. notes' = notes \o new
    BY <1>3
  <2> QED
    BY <2>1, <2>2, <2>3
<1>8. \A i \in 1..Len(new) : notes'[k + i].call = r.call /\ notes'[k + i].to = told[i]
  <2> SUFFICES ASSUME NEW i \in 1..Len(new)
               PROVE  notes'[k + i].call = r.call /\ notes'[k + i].to = told[i]
    OBVIOUS
  <2>1. notes'[k + i] = Note(r, told[i])
    BY <1>3, <1>7
  <2> QED
    BY <2>1 DEF Note
<1> HIDE DEF k
<1>9. ASSUME NEW u \in Users
      PROVE  Cardinality(Got(c, u)') = IF u = c.actor THEN 0
                ELSE IF Cardinality(Named(c, u)) > 0 THEN Cardinality(Named(c, u))
                ELSE Bit(u = c.assignee)
  <2> DEFINE P == {i \in DOMAIN told : told[i] = u}
             G == Got(c, u)'
             f == [i \in P |-> k + i]
  <2>1. G = {n \in 1..(k + Len(new)) : notes'[n].call = r.call /\ notes'[n].to = u}
    BY <1>7 DEF Got
  <2>2. f \in Bijection(P, G)
    <3>1. f \in [P -> G]
      <4> SUFFICES ASSUME NEW i \in P
                   PROVE  k + i \in G
        OBVIOUS
      <4>1. i \in 1..Len(new) /\ told[i] = u
        BY <1>6
      <4>2. k + i \in 1..(k + Len(new))
        BY <1>7, <4>1
      <4>3. notes'[k + i].call = r.call /\ notes'[k + i].to = u
        BY <1>8, <4>1
      <4> QED
        BY <2>1, <4>2, <4>3
    <3>2. \A a, b \in P : f[a] = f[b] => a = b
      <4>1. k \in Int /\ \A a \in P : a \in Int /\ f[a] = k + a
        BY <1>6, <1>7
      <4> HIDE DEF P, f
      <4> QED
        BY <4>1
    <3>3. ASSUME NEW n \in G
          PROVE  \E i \in P : f[i] = n
      <4>1. n \in 1..(k + Len(new)) /\ n \notin 1..k
        BY <1>4, <1>7, <2>1
      <4>2. n - k \in 1..Len(new) /\ k + (n - k) = n
        BY <1>7, <4>1
      <4>3. told[n - k] = u
        BY <1>8, <2>1, <4>2
      <4> QED
        BY <1>6, <4>2, <4>3
    <3> QED
      BY <3>1, <3>2, <3>3 DEF Bijection, Injection, Surjection, IsInjective
  <2>3. IsFiniteSet(P)
    <3>1. IsFiniteSet(DOMAIN told)
      BY <1>6, <1>7, FS_Interval
    <3> QED
      BY <3>1, FS_Subset
  <2>4. Cardinality(G) = Cardinality(P)
    BY <2>2, <2>3, FS_Bijection DEF ExistsBijection
  <2> DEFINE Q == {i \in S : m[i] = u}
  <2>5. Cardinality(G) = Cardinality(Q) + Bit(u \in last)
    BY <1>6, <2>4
  <2> HIDE DEF G, P, f, Q
  <2>6. IsFiniteSet(Named(c, u)) /\ Cardinality(Named(c, u)) \in Nat
    <3>1. IsFiniteSet(DOMAIN m)
      <4>1. DOMAIN m = 1..Len(m) /\ Len(m) \in Nat
        BY <1>1
      <4>2. IsFiniteSet(1..Len(m))
        BY <4>1, FS_Interval
      <4> QED
        BY <4>1, <4>2
    <3>2. Named(c, u) \subseteq DOMAIN m
      BY DEF Named
    <3> QED
      BY <3>1, <3>2, FS_Subset, FS_CardinalityType
  <2>7. CASE u = r.actor
    <3>1. Q = {} /\ u \notin last
      BY <2>7 DEF S, last, Q
    <3>2. Cardinality(Q) = 0
      BY <3>1, FS_EmptySet
    <3> QED
      BY <2>5, <2>7, <3>1, <3>2 DEF Bit, G
  <2>8. CASE u # r.actor /\ Named(c, u) # {}
    <3>1. Q = Named(c, u)
      BY <2>8 DEF Named, S, Q
    <3>2. u \notin last
      BY <2>8 DEF last, Named, ToSet
    <3>3. Cardinality(Named(c, u)) > 0
      BY <2>6, <2>8, FS_EmptySet
    <3>4. Cardinality(G) = Cardinality(Named(c, u))
      BY <2>5, <2>6, <3>1, <3>2 DEF Bit
    <3> QED
      BY <2>8, <3>3, <3>4 DEF G
  <2>9. CASE u # r.actor /\ Named(c, u) = {}
    <3>1. Q = {} /\ (u \in last <=> u = r.row.assignee)
      BY <2>9, RequestsAssumption DEF Named, S, last, ToSet, Q
    <3>2. Cardinality(Q) = 0 /\ Cardinality(Named(c, u)) = 0
      BY <2>9, <3>1, FS_EmptySet
    <3>3. Cardinality(G) = Bit(u = r.row.assignee)
      BY <2>5, <3>1, <3>2 DEF Bit
    <3> QED
      BY <2>9, <3>2, <3>3 DEF G
  <2> QED
    BY <2>7, <2>8, <2>9
<1> QED
  BY <1>9 DEF ToldAll, Named

\* What the steps but the starts store is about their own call.
LEMMA StoresOwn ==
  ASSUME TaskTypes, NotesTypes, NEW p \in Procs, GoesOn(p) \/ Comment(p)
  PROVE  /\ DOMAIN notes \subseteq DOMAIN notes' /\ \A n \in DOMAIN notes : notes'[n] = notes[n]
         /\ \/ notes' = notes
            \/ Pending(p) /\ \A n \in DOMAIN notes' \ DOMAIN notes : notes'[n].call = req[p].call
         /\ calls' = calls /\ at'[p] # "comment"
         /\ \A q \in Procs \ {p} : at'[q] = at[q] /\ req'[q] = req[q]
<1>0. notes \in Seq(StoredNotes)
  BY DEF NotesTypes
<1>1. CASE GoesOn(p)
  <2>1. at'[p] # "comment"
    <3>1. ASSUME NEW u \in Users, CreateTask(p, u)
          PROVE  at'[p] # "comment"
      BY <3>1 DEF CreateTask, Trip, TaskTypes
    <3>2. CASE Update(p) \/ DelCache(p) \/ Notify(p) \/ NotifyFails(p)
      BY <3>2 DEF Update, DelCache, Notify, NotifyFails, Trip, TaskTypes
    <3>3. CASE Activity(p) \/ IncreaseHeat(p) \/ Enqueue(p)
      BY <3>3 DEF Activity, IncreaseHeat, Enqueue, Trip, Done, Ends, TaskTypes
    <3>4. CASE Announce(p) \/ RequestFails(p) \/ CommentFails(p)
      BY <3>4 DEF Announce, RequestFails, CommentFails, Done, Ends, TaskTypes
    <3> QED
      BY <1>1, <3>1, <3>2, <3>3, <3>4 DEF GoesOn
  <2>2. calls' = calls /\ \A q \in Procs \ {p} : at'[q] = at[q] /\ req'[q] = req[q]
    BY <1>1, GoingOnMoves
  <2>3. \/ notes' = notes
        \/ at[p] = "notify" /\ \E u : notes' = Append(notes, Note(req[p], u))
    <3>1. CASE Notify(p) \/ NotifyFails(p)
      BY <3>1 DEF Notify, NotifyFails, Trip
    <3>2. CASE QuietStep(p)
      BY <3>2, QuietHands
    <3>3. CASE Announce(p) \/ RequestFails(p) \/ CommentFails(p)
      BY <3>3 DEF Announce, RequestFails, CommentFails, effects
    <3> QED
      BY <1>1, <3>1, <3>2, <3>3 DEF GoesOn, QuietStep
  <2>4. CASE notes' = notes
    BY <2>1, <2>2, <2>4
  <2>5. ASSUME NEW u, at[p] = "notify", notes' = Append(notes, Note(req[p], u))
        PROVE  /\ DOMAIN notes \subseteq DOMAIN notes'
               /\ \A n \in DOMAIN notes : notes'[n] = notes[n]
               /\ Pending(p)
               /\ \A n \in DOMAIN notes' \ DOMAIN notes : notes'[n].call = req[p].call
    <3>1. Pending(p)
      BY <2>5 DEF Pending, TaskTypes
    <3>2. Note(req[p], u).call = req[p].call
      BY DEF Note
    <3> QED
      BY <1>0, <2>5, <3>1, <3>2
  <2> QED
    BY <2>1, <2>2, <2>3, <2>4, <2>5
<1>2. CASE Comment(p)
  <2>1. /\ at[p] = "comment" /\ at' = [at EXCEPT ![p] = "activity"] /\ UNCHANGED <<req, calls>>
    BY <1>2 DEF Comment, Trip
  <2>2. /\ Pending(p) /\ at'[p] # "comment" /\ calls' = calls
        /\ \A q \in Procs \ {p} : at'[q] = at[q] /\ req'[q] = req[q]
    BY <2>1 DEF TaskTypes, Pending
  <2>3. PICK told \in Tells(req[p], mentions[p]) : \E new \in Seq(StoredNotes) :
           /\ \A i \in 1..Len(new) : new[i] = Note(req[p], told[i])
           /\ notes' = notes \o new
    BY <1>2, CommentStores
  <2>4. PICK new \in Seq(StoredNotes) :
           /\ \A i \in 1..Len(new) : new[i] = Note(req[p], told[i])
           /\ notes' = notes \o new
    BY <2>3
  <2> DEFINE k == Len(notes)
  <2>5. /\ DOMAIN notes' = 1..(k + Len(new)) /\ k \in Nat /\ Len(new) \in Nat
        /\ DOMAIN notes = 1..k
        /\ \A n \in DOMAIN notes : notes'[n] = notes[n]
        /\ \A i \in 1..Len(new) : notes'[k + i] = new[i]
    <3>1. /\ DOMAIN (notes \o new) = 1..(k + Len(new)) /\ k \in Nat /\ Len(new) \in Nat
          /\ \A n \in DOMAIN notes : (notes \o new)[n] = notes[n]
          /\ \A i \in 1..Len(new) : (notes \o new)[k + i] = new[i]
      BY <1>0, Appended
    <3>2. DOMAIN notes = 1..k
      BY <1>0
    <3>3. notes' = notes \o new
      BY <2>4
    <3> QED
      BY <3>1, <3>2, <3>3
  <2> HIDE DEF k
  <2>6. ASSUME NEW n \in DOMAIN notes' \ DOMAIN notes
        PROVE  notes'[n].call = req[p].call
    <3>1. n - k \in 1..Len(new) /\ k + (n - k) = n
      BY <2>5
    <3>2. notes'[n] = Note(req[p], told[n - k])
      BY <2>4, <2>5, <3>1
    <3> QED
      BY <3>2 DEF Note
  <2>7. DOMAIN notes \subseteq DOMAIN notes'
    BY <2>5
  <2> QED
    BY <2>2, <2>5, <2>6, <2>7
<1> QED
  BY <1>1, <1>2

LEMMA NotesByCallKept ==
  ASSUME TaskTypes, TaskTypes', NotesTypes, FreshCalls, NotesByCall, [CommentsNext]_commentVars
  PROVE  NotesByCall'
<1>1. CASE UNCHANGED commentVars
  <2>1. UNCHANGED <<notes, calls, at, req, comments>>
    BY <1>1 DEF commentVars, requestVars, served, effects
  <2> QED
    BY <2>1 DEF NotesByCall, ToldAll, Got, Named
<1>2. ASSUME NEW p \in Procs, Starts(p)
      PROVE  NotesByCall'
  <2>1. /\ UNCHANGED <<notes, comments>> /\ calls' = calls + 1 /\ req'[p].call = calls + 1
        /\ \A q \in Procs \ {p} : at'[q] = at[q] /\ req'[q] = req[q]
    BY <1>2, StartMoves DEF effects
  <2>2. \A n \in DOMAIN notes : notes[n].call \in Nat /\ notes[n].call <= calls
    <3>1. \A n \in DOMAIN notes : notes[n] \in StoredNotes
      BY DEF NotesTypes
    <3> QED
      BY <3>1 DEF StoredNotes, NotesByCall
  <2>3. calls \in Nat
    BY DEF TaskTypes
  <2>4. \A c \in comments : ToldAll(c)'
    BY <2>1 DEF NotesByCall, ToldAll, Got, Named
  <2>5. \A n \in DOMAIN notes' : notes'[n].call <= calls' /\ notes'[n].call # req'[p].call
    BY <2>1, <2>2, <2>3
  <2>6. \A q \in Procs : at'[q] = "comment" =>
          \A n \in DOMAIN notes' : notes'[n].call # req'[q].call
    BY <2>1, <2>5 DEF NotesByCall
  <2> QED
    BY <2>1, <2>4, <2>5, <2>6 DEF NotesByCall
<1>3. ASSUME NEW p \in Procs, GoesOn(p) \/ Comment(p)
      PROVE  NotesByCall'
  <2>1. /\ \A n \in DOMAIN notes' : notes'[n].call <= calls'
        /\ \A q \in Procs : at'[q] = "comment" =>
             \A n \in DOMAIN notes' : notes'[n].call # req'[q].call
        /\ \A c \in comments : ToldAll(c)'
    BY <1>3, StoresOwn, OthersNotes
  <2>2. ASSUME NEW c \in comments', c \notin comments
        PROVE  ToldAll(c)'
    <3>1. Comment(p)
      BY <1>3, <2>2, GoingOnMoves
    <3>2. c = [call |-> req[p].call, actor |-> req[p].actor,
               assignee |-> req[p].row.assignee, mentions |-> mentions[p]]
      BY <2>2, <3>1 DEF Comment
    <3> QED
      BY <3>1, <3>2, TransactionTells
  <2> QED
    BY <2>1, <2>2 DEF NotesByCall
<1> QED
  BY <1>1, <1>2, <1>3, StepsOfTasks

LEMMA NotesStart ==
  ASSUME CommentsInit
  PROVE  NotesTypes
<1>1. /\ notes = <<>> /\ DOMAIN notes = {}
      /\ queued = [u \in Users |-> 0] /\ became = [u \in Users |-> 0]
      /\ held = [p \in Procs |-> <<>>]
  BY DEF CommentsInit, RequestsInit
<1> QED
  BY <1>1 DEF NotesTypes

LEMMA NotesInductive ==
  CommentsSpec => [](TaskTypes /\ NotesTypes /\ MissingCounted /\ NotesByCall)
<1>1. CommentsInit => NotesTypes /\ MissingCounted /\ NotesByCall
  <2> SUFFICES ASSUME CommentsInit
               PROVE  NotesTypes /\ MissingCounted /\ NotesByCall
    OBVIOUS
  <2>1. /\ notes = <<>> /\ DOMAIN notes = {} /\ unread = {} /\ comments = {} /\ lost = 0 /\ rejected = 0
        /\ queued = [u \in Users |-> 0] /\ became = [u \in Users |-> 0]
        /\ held = [p \in Procs |-> <<>>] /\ \A p \in Procs : at[p] = "idle"
    BY DEF CommentsInit, RequestsInit, HandlersInit
  <2>2. NotesTypes
    BY NotesStart
  <2>3. MissingCalls = {}
    BY <2>1 DEF MissingCalls
  <2>4. MissingCounted
    BY <2>1, <2>3, FS_EmptySet DEF MissingCounted
  <2>5. NotesByCall
    BY <2>1 DEF NotesByCall
  <2> QED
    BY <2>2, <2>4, <2>5
<1>2. (TaskTypes /\ FreshCalls /\ NotesTypes /\ MissingCounted /\ NotesByCall
         /\ TaskTypes' /\ [CommentsNext]_commentVars)
        => NotesTypes' /\ MissingCounted' /\ NotesByCall'
  <2> SUFFICES ASSUME TaskTypes, FreshCalls, NotesTypes, MissingCounted, NotesByCall,
                      TaskTypes', [CommentsNext]_commentVars
               PROVE  NotesTypes' /\ MissingCounted' /\ NotesByCall'
    OBVIOUS
  <2>1. NotesTypes'
    BY NotesTypesKept
  <2>2. MissingCounted'
    BY <2>1, MissingKept
  <2>3. NotesByCall'
    BY <2>1, NotesByCallKept
  <2> QED
    BY <2>1, <2>2, <2>3
<1> QED
  BY <1>1, <1>2, TaskInductive, PTL DEF CommentsSpec

\* docs/PROJECT_ROADMAP.md:817-818: the notifications of a comment are one for each
\* mention and one for the assignee, for any users, mentions and requests beside it.
THEOREM CommentTellsOnce == CommentsSpec => []CommentNotesOnce
<1>1. NotesByCall => CommentNotesOnce
  BY DEF NotesByCall, ToldAll, Got, Named, Bit, CommentNotesOnce
<1> QED
  BY <1>1, NotesInductive, PTL

\* A stored notification that is not announced (notification.go:250-259) belongs to
\* a request under way or to one of the requests that failed, at most one per fault.
THEOREM AnnouncedOrFailed == CommentsSpec => []AnnouncedUnlessFailed
<1>1. MissingCounted => AnnouncedUnlessFailed
  BY DEF MissingCounted, MissingCalls, InHand, AnnouncedUnlessFailed
<1> QED
  BY <1>1, NotesInductive, PTL

-----------------------------------------------------------------------------
(* The task's requests and comments: who was told of becoming the assignee. *)

\* The notifications of u as the assignee, and the requests that have one to send.
Assigned(u) == {n \in DOMAIN notes : notes[n].to = u /\ notes[n].assigned}
ToAssign(u) == {p \in Procs :
  /\ at[p] \in {"cache", "activity", "heat", "notify", "enqueue"}
  /\ "assignee" \in DOMAIN req[p].new /\ u \in Receivers(req[p])}

AssigneesCounted ==
  \A u \in Users :
    /\ became[u] <= Cardinality(Assigned(u)) + queued[u] + Cardinality(ToAssign(u)) + lost + blind
    /\ Cardinality(Assigned(u)) + Cardinality(ToAssign(u)) <= became[u] + blind + rejected

LEMMA AssignedFinite ==
  ASSUME NotesTypes, NEW u
  PROVE  IsFiniteSet(Assigned(u)) /\ Cardinality(Assigned(u)) \in Nat
<1>1. IsFiniteSet(DOMAIN notes)
  <2>1. DOMAIN notes = 1..Len(notes) /\ Len(notes) \in Nat
    BY DEF NotesTypes
  <2>2. IsFiniteSet(1..Len(notes))
    BY <2>1, FS_Interval
  <2> QED
    BY <2>1, <2>2
<1>2. Assigned(u) \subseteq DOMAIN notes
  BY DEF Assigned
<1> QED
  BY <1>1, <1>2, FS_Subset, FS_CardinalityType

\* One more notification in the table.
LEMMA OneMoreAssigned ==
  ASSUME NotesTypes, NEW note \in StoredNotes, notes' = Append(notes, note), NEW u
  PROVE  Cardinality(Assigned(u)') = Cardinality(Assigned(u)) + Bit(note.to = u /\ note.assigned)
<1> DEFINE k == Len(notes) + 1
<1>1. /\ DOMAIN notes' = DOMAIN notes \cup {k} /\ k \notin DOMAIN notes
      /\ notes'[k] = note /\ \A n \in DOMAIN notes : notes'[n] = notes[n]
  BY DEF NotesTypes
<1> HIDE DEF k
<1>2. CASE note.to = u /\ note.assigned
  <2>1. Assigned(u)' = Assigned(u) \cup {k} /\ k \notin Assigned(u)
    BY <1>1, <1>2 DEF Assigned
  <2>2. Cardinality(Assigned(u)') = Cardinality(Assigned(u)) + 1
    BY <2>1, AssignedFinite, FS_AddElement
  <2> QED
    BY <1>2, <2>2 DEF Bit
<1>3. CASE ~ (note.to = u /\ note.assigned)
  <2>1. Assigned(u)' = Assigned(u)
    BY <1>1, <1>3 DEF Assigned
  <2>2. Cardinality(Assigned(u)') = Cardinality(Assigned(u)) /\ Cardinality(Assigned(u)) \in Nat
    BY <2>1, AssignedFinite
  <2> QED
    BY <1>3, <2>2 DEF Bit
<1> QED
  BY <1>2, <1>3

\* The columns that Receivers looks at name one user at the most.
LEMMA OneReceiver ==
  ASSUME NEW r, NEW u \in Receivers(r), NEW v \in Receivers(r)
  PROVE  u = v
BY DEF Receivers

\* A step of p that moves p, or stores or queues for it, as much as it counts.
LEMMA AssigneesMove ==
  ASSUME TaskTypes, TaskTypes', NotesTypes, NotesTypes', AssigneesCounted, NEW p \in Procs,
         \A q \in Procs \ {p} : at'[q] = at[q] /\ req'[q] = req[q],
         \A u \in Users :
           /\ became'[u] + Cardinality(Assigned(u)) + queued[u] + Bit(p \in ToAssign(u)) + lost + blind
                <= became[u] + Cardinality(Assigned(u)') + queued'[u] + Bit(p \in ToAssign(u)')
                   + lost' + blind'
           /\ Cardinality(Assigned(u)') + Bit(p \in ToAssign(u)') + became[u] + blind + rejected
                <= Cardinality(Assigned(u)) + Bit(p \in ToAssign(u)) + became'[u] + blind' + rejected'
  PROVE  AssigneesCounted'
<1> SUFFICES ASSUME NEW u \in Users
             PROVE  /\ became'[u] <= Cardinality(Assigned(u)') + queued'[u]
                                       + Cardinality(ToAssign(u)') + lost' + blind'
                    /\ Cardinality(Assigned(u)') + Cardinality(ToAssign(u)')
                         <= became'[u] + blind' + rejected'
  BY DEF AssigneesCounted
<1>1. /\ ToAssign(u) \in SUBSET Procs /\ ToAssign(u)' \in SUBSET Procs
      /\ ToAssign(u) \ {p} = ToAssign(u)' \ {p}
  BY DEF ToAssign, Receivers
<1> DEFINE s == Cardinality(Assigned(u))   t == Cardinality(Assigned(u)')
           w == Cardinality(ToAssign(u))   x == Cardinality(ToAssign(u)')
           b == Bit(p \in ToAssign(u))     c == Bit(p \in ToAssign(u)')
<1>2. w \in Nat /\ x \in Nat /\ x + b = w + c /\ b \in Nat /\ c \in Nat
  <2>1. b \in Nat /\ c \in Nat
    BY DEF Bit
  <2> QED
    BY <1>1, <2>1, OneMoves
<1>3. s \in Nat
  BY AssignedFinite
<1>4. t \in Nat
  <2>1. DOMAIN notes' = 1..Len(notes') /\ Len(notes') \in Nat
    BY DEF NotesTypes
  <2>2. IsFiniteSet(1..Len(notes'))
    BY <2>1, FS_Interval
  <2>3. Assigned(u)' \subseteq DOMAIN notes'
    BY DEF Assigned
  <2> QED
    BY <2>1, <2>2, <2>3, FS_Subset, FS_CardinalityType
<1>5. /\ became[u] <= s + queued[u] + w + lost + blind
      /\ s + w <= became[u] + blind + rejected
  BY DEF AssigneesCounted
<1>6. {became[u], became'[u], queued[u], queued'[u], lost, lost', blind, blind', rejected, rejected'}
        \subseteq Nat
  BY DEF NotesTypes, TaskTypes
<1>7. /\ became'[u] + s + queued[u] + b + lost + blind
           <= became[u] + t + queued'[u] + c + lost' + blind'
      /\ t + c + became[u] + blind + rejected <= s + b + became'[u] + blind' + rejected'
  OBVIOUS
<1> HIDE DEF s, t, w, x, b, c
<1>8. /\ became'[u] <= t + queued'[u] + x + lost' + blind'
      /\ t + x <= became'[u] + blind' + rejected'
  BY <1>2, <1>3, <1>4, <1>5, <1>6, <1>7
<1> QED
  BY <1>8 DEF t, x

\* What an UPDATE makes of the assignee: who is told by it, unless it is blind.
LEMMA UpdateAssigns ==
  ASSUME TaskTypes, NotesTypes, NEW p \in Procs, Update(p), NEW u \in Users
  PROVE  /\ Bit(p \in ToAssign(u)) = 0
         /\ \/ blind' = blind /\ became'[u] = became[u] + Bit(p \in ToAssign(u)')
            \/ blind' = blind + 1 /\ became'[u] \in {became[u], became[u] + 1}
<1> DEFINE r == req[p]
<1>1. /\ at[p] = "update" /\ at'[p] = "cache" /\ req' = req /\ r \in ServedRequests
      /\ task \in Rows /\ task' = UpdatedRow(r)
  BY DEF Update, Trip, TaskTypes
<1>2. task'.assignee = IF "assignee" \in DOMAIN r.new THEN r.new.assignee ELSE task.assignee
  BY <1>1, UpdatedRows
<1>3. Bit(p \in ToAssign(u)) = 0
  BY <1>1 DEF ToAssign, Bit
<1>4. became'[u] = IF task'.assignee = u /\ task.assignee # u /\ r.actor # u
                     THEN became[u] + 1 ELSE became[u]
  BY DEF Update, NotesTypes
<1>5. CASE r.row # task
  BY <1>3, <1>4, <1>5 DEF Update
<1>6. CASE r.row = task
  <2>1. blind' = blind
    BY <1>6 DEF Update
  <2>2. p \in ToAssign(u)' <=> "assignee" \in DOMAIN r.new /\ u \in Receivers(r)
    BY <1>1 DEF ToAssign, Receivers
  <2>3. p \in ToAssign(u)' <=> task'.assignee = u /\ task.assignee # u /\ r.actor # u
    BY <1>2, <1>6, <2>2, RequestsAssumption DEF Receivers
  <2>4. became[u] \in Nat
    BY DEF NotesTypes
  <2> QED
    BY <1>3, <1>4, <2>1, <2>3, <2>4 DEF Bit
<1> QED
  BY <1>5, <1>6

\* What a comment stores makes nobody the assignee.
LEMMA CommentAssigns ==
  ASSUME TaskTypes, NotesTypes, NEW p \in Procs, Comment(p), NEW u
  PROVE  Assigned(u)' = Assigned(u)
<1>1. /\ req[p] \in ServedRequests /\ req[p].new = <<>>
  BY DEF Comment, Trip, TaskTypes, IsUpdate
<1>2. PICK told \in Tells(req[p], mentions[p]), new \in Seq(StoredNotes) :
        /\ told \in Seq(Users) /\ Len(new) = Len(told)
        /\ \A i \in 1..Len(new) : new[i] = Note(req[p], told[i])
        /\ notes' = notes \o new
  BY CommentStores
<1>3. /\ notes \in Seq(StoredNotes)
      /\ DOMAIN notes' = 1..(Len(notes) + Len(new)) /\ DOMAIN notes = 1..Len(notes)
      /\ Len(notes) \in Nat /\ Len(new) \in Nat
      /\ \A n \in DOMAIN notes : notes'[n] = notes[n]
      /\ \A i \in 1..Len(new) : notes'[Len(notes) + i] = new[i]
  <2>1. notes \in Seq(StoredNotes) /\ new \in Seq(StoredNotes)
    BY DEF NotesTypes
  <2>2. notes' = notes \o new
    BY <1>2
  <2>3. /\ DOMAIN (notes \o new) = 1..(Len(notes) + Len(new))
        /\ Len(notes) \in Nat /\ Len(new) \in Nat
        /\ \A n \in DOMAIN notes : (notes \o new)[n] = notes[n]
        /\ \A i \in 1..Len(new) : (notes \o new)[Len(notes) + i] = new[i]
    BY <2>1, Appended
  <2>4. DOMAIN notes = 1..Len(notes)
    BY <2>1
  <2> QED
    BY <2>1, <2>2, <2>3, <2>4
<1>4. \A i \in 1..Len(new) : ~ new[i].assigned
  <2>1. "assignee" \notin DOMAIN req[p].new
    BY <1>1
  <2>2. \A v : ~ Note(req[p], v).assigned
    BY <2>1 DEF Note
  <2> QED
    BY <1>2, <2>2
<1>5. ASSUME NEW n \in DOMAIN notes' \ DOMAIN notes
      PROVE  ~ notes'[n].assigned
  <2>1. n - Len(notes) \in 1..Len(new) /\ n = Len(notes) + (n - Len(notes))
    BY <1>3
  <2>2. notes'[n] = new[n - Len(notes)]
    BY <1>3, <2>1
  <2> QED
    BY <1>4, <2>1, <2>2
<1>6. DOMAIN notes \subseteq DOMAIN notes'
  BY <1>3
<1> QED
  BY <1>3, <1>5, <1>6 DEF Assigned

\* What Notify stores, and NotifyFails may store.
LEMMA NotifyAssigns ==
  ASSUME TaskTypes, NotesTypes, NEW p \in Procs, Notify(p) \/ NotifyFails(p), NEW u \in Users
  PROVE  /\ at[p] = "notify"
         /\ \/ notes' = notes /\ NotifyFails(p)
            \/ Cardinality(Assigned(u)') = Cardinality(Assigned(u)) + Bit(p \in ToAssign(u))
<1> DEFINE r == req[p]
<1>1. at[p] = "notify" /\ r \in ServedRequests
  BY DEF Notify, NotifyFails, Trip, TaskTypes
<1>2. ASSUME NEW v \in Receivers(r), notes' = Append(notes, Note(r, v))
      PROVE  Cardinality(Assigned(u)') = Cardinality(Assigned(u)) + Bit(p \in ToAssign(u))
  <2>1. /\ Note(r, v) \in StoredNotes /\ Note(r, v).to = v
        /\ Note(r, v).assigned <=> "assignee" \in DOMAIN r.new
    BY <1>1, StoredByRequest DEF Note
  <2>2. p \in ToAssign(u) <=> v = u /\ Note(r, v).assigned
    BY <1>1, <2>1, OneReceiver DEF ToAssign
  <2>3. Cardinality(Assigned(u)')
          = Cardinality(Assigned(u)) + Bit(Note(r, v).to = u /\ Note(r, v).assigned)
    BY <1>2, <2>1, OneMoreAssigned
  <2> QED
    BY <2>1, <2>2, <2>3
<1>3. CASE Notify(p)
  BY <1>1, <1>2, <1>3 DEF Notify
<1>4. CASE NotifyFails(p)
  BY <1>1, <1>2, <1>4 DEF NotifyFails
<1> QED
  BY <1>3, <1>4

\* The retry queue gets what p had to send.
LEMMA EnqueueAssigns ==
  ASSUME TaskTypes, NotesTypes, NEW p \in Procs, Enqueue(p), NEW u \in Users
  PROVE  queued'[u] \in {queued[u], queued[u] + 1}
         /\ (p \in ToAssign(u) => queued'[u] = queued[u] + 1)
<1>1. PICK v \in Receivers(req[p]) : queued' = [queued EXCEPT ![v] = @ + 1]
  BY DEF Enqueue
<1>2. queued'[u] = IF u = v THEN queued[u] + 1 ELSE queued[u]
  BY <1>1 DEF NotesTypes
<1>3. p \in ToAssign(u) => u = v
  BY <1>1, OneReceiver DEF ToAssign
<1> QED
  BY <1>2, <1>3

LEMMA AssigneesKept ==
  ASSUME TaskTypes, TaskTypes', NotesTypes, NotesTypes', AssigneesCounted, NEW p \in Procs,
         Starts(p) \/ GoesOn(p) \/ Comment(p)
  PROVE  AssigneesCounted'
<1>1. \A q \in Procs \ {p} : at'[q] = at[q] /\ req'[q] = req[q]
  <2>1. CASE Comment(p)
    BY <2>1 DEF Comment, Trip, TaskTypes
  <2> QED
    BY <2>1, StartMoves, GoingOnMoves
<1>2. /\ {lost, blind, rejected} \subseteq Nat
      /\ \A u \in Users : {became[u], queued[u], Cardinality(Assigned(u))} \subseteq Nat
      /\ \A u : Bit(p \in ToAssign(u)) \in {0, 1} /\ Bit(p \in ToAssign(u)') \in {0, 1}
  <2>1. /\ {lost, blind, rejected} \subseteq Nat
        /\ \A u \in Users : {became[u], queued[u]} \subseteq Nat
    BY DEF TaskTypes, NotesTypes
  <2>2. \A u \in Users : Cardinality(Assigned(u)) \in Nat
    BY AssignedFinite
  <2>3. \A u : Bit(p \in ToAssign(u)) \in {0, 1} /\ Bit(p \in ToAssign(u)') \in {0, 1}
    BY DEF Bit
  <2> QED
    BY <2>1, <2>2, <2>3
\* Steps that store nothing, queue nothing and fail at nothing.
<1>3. ASSUME UNCHANGED <<became, blind, rejected>>, lost' \in Nat,
             \A u \in Users : Cardinality(Assigned(u)') = Cardinality(Assigned(u)),
             UNCHANGED queued,
             \A u \in Users : Bit(p \in ToAssign(u)') <= Bit(p \in ToAssign(u)),
             \/ lost' = lost + 1
             \/ lost' = lost /\ \A u \in Users : Bit(p \in ToAssign(u)') = Bit(p \in ToAssign(u))
      PROVE  AssigneesCounted'
  BY <1>1, <1>2, <1>3, AssigneesMove
<1>4. notes' = notes => \A u \in Users : Cardinality(Assigned(u)') = Cardinality(Assigned(u))
  BY DEF Assigned
<1> USE DEF Trip, Done, Ends
<1>5. CASE Starts(p)
  <2>1. /\ UNCHANGED <<became, blind, rejected, lost, notes, queued>>
        /\ at[p] = "idle" /\ at'[p] \in {"update", "comment"}
    BY <1>5, StartMoves DEF effects, history
  <2>2. \A u \in Users : p \notin ToAssign(u) /\ p \notin ToAssign(u)'
    BY <2>1 DEF ToAssign
  <2> QED
    BY <1>2, <1>3, <1>4, <2>1, <2>2
<1>6. CASE Comment(p)
  <2>1. /\ UNCHANGED <<became, blind, rejected, lost, queued, req>>
        /\ at[p] = "comment" /\ req[p].new = <<>>
    BY <1>6 DEF Comment, TaskTypes, IsUpdate, history
  <2>2. \A u \in Users : p \notin ToAssign(u) /\ p \notin ToAssign(u)'
    BY <2>1 DEF ToAssign
  <2> QED
    BY <1>2, <1>3, <1>6, <2>1, <2>2, CommentAssigns
<1>7. ASSUME NEW u \in Users, CreateTask(p, u)
      PROVE  AssigneesCounted'
  <2>1. /\ UNCHANGED <<became, blind, rejected, lost, notes, queued>>
        /\ at[p] = "idle" /\ at'[p] = "activity" /\ req'[p].new = <<>>
    BY <1>7 DEF CreateTask, TaskTypes, effects, history
  <2>2. \A v \in Users : p \notin ToAssign(v) /\ p \notin ToAssign(v)'
    BY <2>1 DEF ToAssign
  <2> QED
    BY <1>2, <1>3, <1>4, <2>1, <2>2
<1>8. CASE Update(p)
  <2>1. UNCHANGED <<queued, lost, rejected, notes>>
    BY <1>8 DEF Update, effects
  <2> QED
    BY <1>1, <1>2, <1>4, <1>8, <2>1, UpdateAssigns, AssigneesMove
<1>9. CASE DelCache(p)
  <2>1. /\ UNCHANGED <<became, blind, rejected, lost, notes, queued, req>>
        /\ at[p] = "cache" /\ at'[p] = "activity"
    BY <1>9 DEF DelCache, TaskTypes, effects, history
  <2>2. \A u \in Users : p \in ToAssign(u)' <=> p \in ToAssign(u)
    BY <2>1 DEF ToAssign, Receivers
  <2> QED
    BY <1>2, <1>3, <1>4, <2>1, <2>2
<1>10. CASE Activity(p)
  <2>1. /\ UNCHANGED <<became, blind, rejected, lost, notes, queued>>
        /\ at[p] = "activity"
        /\ IF IsUpdate(req[p]) THEN at'[p] = "heat" /\ req' = req
           ELSE at'[p] \in {"announce", "idle"}
    BY <1>10 DEF Activity, TaskTypes, history
  <2>2. \A u \in Users : p \in ToAssign(u)' <=> p \in ToAssign(u)
    BY <2>1 DEF ToAssign, Receivers, IsUpdate
  <2> QED
    BY <1>2, <1>3, <1>4, <2>1, <2>2
<1>11. CASE IncreaseHeat(p)
  <2>1. /\ UNCHANGED <<became, blind, rejected, lost, notes, queued>>
        /\ at[p] = "heat"
        /\ \/ at'[p] = "notify" /\ req' = req
           \/ at'[p] = "idle" /\ Receivers(req[p]) = {}
    BY <1>11 DEF IncreaseHeat, TaskTypes, history
  <2>2. \A u \in Users : p \in ToAssign(u)' <=> p \in ToAssign(u)
    BY <2>1 DEF ToAssign, Receivers
  <2> QED
    BY <1>2, <1>3, <1>4, <2>1, <2>2
<1>12. CASE Notify(p)
  <2>1. /\ UNCHANGED <<became, blind, rejected, lost, queued>>
        /\ at'[p] = "announce" /\ notes' # notes
    BY <1>12 DEF Notify, TaskTypes, NotesTypes, history
  <2>2. \A u \in Users :
          /\ Cardinality(Assigned(u)') = Cardinality(Assigned(u)) + Bit(p \in ToAssign(u))
          /\ Bit(p \in ToAssign(u)') = 0
    BY <1>12, <2>1, NotifyAssigns DEF ToAssign, Bit
  <2> QED
    BY <1>1, <1>2, <2>1, <2>2, AssigneesMove
<1>13. CASE NotifyFails(p)
  <2>1. /\ UNCHANGED <<became, blind, lost, queued, req>> /\ rejected' = rejected + 1
        /\ at[p] = "notify" /\ at'[p] = "enqueue"
    BY <1>13 DEF NotifyFails, TaskTypes, history
  <2>2. \A u \in Users : Bit(p \in ToAssign(u)') = Bit(p \in ToAssign(u))
    BY <2>1 DEF ToAssign, Receivers, Bit
  <2>3. \A u \in Users :
          Cardinality(Assigned(u)') \in {Cardinality(Assigned(u)), Cardinality(Assigned(u)) + 1}
    BY <1>2, <1>4, <1>13, NotifyAssigns
  <2> QED
    BY <1>1, <1>2, <2>1, <2>2, <2>3, AssigneesMove
<1>14. CASE Enqueue(p)
  <2>1. /\ UNCHANGED <<became, blind, rejected, lost, notes>> /\ at'[p] = "idle"
    BY <1>14 DEF Enqueue, TaskTypes, history
  <2>2. \A u \in Users : Bit(p \in ToAssign(u)') = 0
    BY <2>1 DEF ToAssign, Bit
  <2>3. \A u \in Users : /\ queued'[u] \in Nat
                         /\ queued'[u] >= queued[u] + Bit(p \in ToAssign(u))
    BY <1>2, <1>14, EnqueueAssigns DEF Bit
  <2> QED
    BY <1>1, <1>2, <1>4, <2>1, <2>2, <2>3, AssigneesMove
<1>15. CASE Announce(p)
  <2>1. /\ UNCHANGED <<became, blind, rejected, lost, notes, queued>>
        /\ at[p] = "announce" /\ at'[p] \in {"announce", "idle"}
    BY <1>15 DEF Announce, TaskTypes, history
  <2>2. \A u \in Users : p \notin ToAssign(u) /\ p \notin ToAssign(u)'
    BY <2>1 DEF ToAssign
  <2> QED
    BY <1>2, <1>3, <1>4, <2>1, <2>2
<1>16. CASE RequestFails(p) \/ CommentFails(p)
  <2>1. /\ UNCHANGED <<became, blind, rejected, notes, queued>>
        /\ lost' = lost + 1 /\ at'[p] = "idle"
    BY <1>16 DEF RequestFails, CommentFails, TaskTypes, effects, history
  <2>2. \A u \in Users : Bit(p \in ToAssign(u)') = 0
    BY <2>1 DEF ToAssign, Bit
  <2> QED
    BY <1>2, <1>3, <1>4, <2>1, <2>2
<1> QED
  BY <1>5, <1>6, <1>7, <1>8, <1>9, <1>10, <1>11, <1>12, <1>13, <1>14, <1>15, <1>16 DEF GoesOn

LEMMA AssigneesInductive == CommentsSpec => [](TaskTypes /\ NotesTypes /\ AssigneesCounted)
<1>1. CommentsInit => AssigneesCounted
  <2> SUFFICES ASSUME CommentsInit, NEW u \in Users
               PROVE  /\ became[u] <= Cardinality(Assigned(u)) + queued[u]
                                        + Cardinality(ToAssign(u)) + lost + blind
                      /\ Cardinality(Assigned(u)) + Cardinality(ToAssign(u))
                           <= became[u] + blind + rejected
    BY DEF AssigneesCounted
  <2>1. /\ notes = <<>> /\ DOMAIN notes = {} /\ lost = 0 /\ rejected = 0 /\ blind = 0
        /\ queued[u] = 0 /\ became[u] = 0 /\ \A p \in Procs : at[p] = "idle"
    BY DEF CommentsInit, RequestsInit, HandlersInit
  <2>2. Assigned(u) = {} /\ ToAssign(u) = {}
    BY <2>1 DEF Assigned, ToAssign
  <2> QED
    BY <2>1, <2>2, FS_EmptySet
<1>2. AssigneesCounted /\ TaskTypes /\ TaskTypes' /\ NotesTypes /\ NotesTypes'
        /\ [CommentsNext]_commentVars => AssigneesCounted'
  <2> SUFFICES ASSUME AssigneesCounted, TaskTypes, TaskTypes', NotesTypes, NotesTypes',
                      [CommentsNext]_commentVars
               PROVE  AssigneesCounted'
    OBVIOUS
  <2>1. CASE UNCHANGED commentVars
    BY <2>1 DEF commentVars, requestVars, served, effects, history, AssigneesCounted,
                Assigned, ToAssign, Receivers
  <2> QED
    BY <2>1, StepsOfTasks, AssigneesKept
<1> QED
  BY <1>1, <1>2, NotesInductive, PTL DEF CommentsSpec

\* Whoever becomes the assignee is told once (task.go UpdateTask), but for requests
\* under way or that ended early, and UPDATEs of a row that was not the one read.
THEOREM AssigneesTold == CommentsSpec => []AssigneeTold
<1>1. AssigneesCounted => AssigneeTold
  BY DEF AssigneesCounted, Assigned, ToAssign, AssigneeTold
<1> QED
  BY <1>1, AssigneesInductive, PTL

-----------------------------------------------------------------------------
(* The types, component by component.                                       *)

\* What a request of the profile has read, once it may store it, is a nickname.
ProfileTyped ==
  ProfileIInv /\ ProfileTypeOK /\ \A p \in Procs : at[p] = "fillProfile" => value[p] > 0

LEMMA ProfileTypedKept ==
  ASSUME ProfileTyped, [ProfileNext]_<<at, profileVars>>
  PROVE  ProfileTyped'
<1>0. ProfileIInv'
  BY ProfileKept DEF ProfileTyped
<1> USE DEF ProfileTyped, ProfileIInv, ProfileTypeOK, ProfileStages, NotCached
<1> DEFINE Rest == ProfileTypeOK /\ \A p \in Procs : at[p] = "fillProfile" => value[p] > 0
<1>1. ASSUME NEW p \in Procs, GetProfile(p) \/ SelectProfile(p) \/ UpdateProfile(p)
      PROVE  Rest'
  BY <1>1, ProfileAssumption DEF GetProfile, SelectProfile, UpdateProfile, Trip,
                                 profileVars, profileRequest
<1>2. ASSUME NEW p \in Procs, FillProfile(p)
      PROVE  Rest'
  <2>1. /\ at[p] = "fillProfile" /\ at' = [at EXCEPT ![p] = "profile"] /\ cached' = value[p]
        /\ UNCHANGED <<nickname, value, floor, old, published>>
    BY <1>2 DEF FillProfile, Trip, profileRequest
  <2>2. cached' \in 1..nickname
    BY <2>1
  <2>3. cached' # NotCached
    BY <2>2
  <2>4. ASSUME NEW q \in Procs
        PROVE  /\ at'[q] \in ProfileStages <=> at[q] \in ProfileStages
               /\ at'[q] = "fillProfile" => at[q] = "fillProfile"
    BY <2>1
  <2>5. \A q \in Procs :
          /\ value'[q] \in 0..nickname' /\ floor'[q] \in 0..published'
          /\ at'[q] \notin ProfileStages => value'[q] = 0 /\ floor'[q] = 0 /\ ~ old'[q]
          /\ at'[q] = "fillProfile" => value'[q] > 0
    <3>1. \A q \in Procs :
            /\ value[q] \in 0..nickname /\ floor[q] \in 0..published
            /\ at[q] \notin ProfileStages => value[q] = 0 /\ floor[q] = 0 /\ ~ old[q]
            /\ at[q] = "fillProfile" => value[q] > 0
      OBVIOUS
    <3> HIDE DEF ProfileTyped, ProfileIInv, ProfileTypeOK, ProfileStages
    <3> QED
      BY <2>1, <2>4, <3>1, Zenon
  <2>6. /\ nickname' \in 1..(MaxEdits + 1) /\ published' \in 1..nickname'
        /\ cached' \in {NotCached} \cup (1..nickname')
    BY <2>1, <2>2
  <2> HIDE DEF ProfileTyped, ProfileIInv, ProfileStages, NotCached
  <2> QED
    BY <2>3, <2>5, <2>6, Zenon
<1>3. ASSUME NEW p \in Procs, ProfileAnswered(p) \/ ProfileFails(p) \/ DeleteProfileCache(p)
      PROVE  Rest'
  BY <1>3, ProfileAssumption DEF ProfileAnswered, ProfileFails, DeleteProfileCache,
                                 ProfileForgets, Ends
<1>4. ASSUME NEW p \in Procs, UpdateNickname(p)
      PROVE  Rest'
  BY <1>4, ProfileAssumption DEF UpdateNickname, Trip
<1>5. ASSUME ProfileExpires
      PROVE  Rest'
  BY <1>5 DEF ProfileExpires, profileRequest
<1>6. ASSUME UNCHANGED <<at, profileVars>>
      PROVE  Rest'
  BY <1>6 DEF profileVars, profileRequest
<1> HIDE DEF Rest
<1>7. Rest'
  BY <1>1, <1>2, <1>3, <1>4, <1>5, <1>6 DEF ProfileNext
<1> HIDE DEF ProfileIInv, ProfileTypeOK
<1> QED
  BY <1>0, <1>7 DEF Rest

LEMMA ProfileTypedFirst ==
  ASSUME HandlersInit, ProfileInit
  PROVE  ProfileTyped
<1>1. ProfileIInv
  BY ProfileStarts
<1>2. ProfileTypeOK /\ \A p \in Procs : at[p] = "fillProfile" => value[p] > 0
  BY ProfileAssumption DEF HandlersInit, ProfileInit, ProfileTypeOK, ProfileStages, NotCached
<1> QED
  BY <1>1, <1>2 DEF ProfileTyped

LikesTyped == LikesIInv /\ LikesTypeOK

LEMMA LikesTypedKept ==
  ASSUME LikesTyped, [LikesNext]_<<at, likeVars>>
  PROVE  LikesTyped'
<1>0. LikesIInv'
  BY LikesKept DEF LikesTyped
<1>1. \A S \in SUBSET Users : Cardinality(S) \in 0..Cardinality(Users)
  BY LikesCounted, HandlersAssumption, FS_Subset, FS_CardinalityType
<1> USE DEF LikesTyped, LikesIInv, LikesTypeOK, LikeStages
<1>2. ASSUME NEW p \in Procs, NEW u \in Users, LikeRequest(p, u)
      PROVE  LikesTypeOK'
  BY <1>2 DEF LikeRequest, Trip, answers
<1>3. ASSUME NEW p \in Procs, Like(p)
      PROVE  LikesTypeOK'
  <2>1. /\ at[p] = "like" /\ at' = [at EXCEPT ![p] = "answer"]
        /\ likes' \subseteq Users /\ liker' = liker
        /\ \A q \in Procs \ {p} : mine'[q] = mine[q] /\ count'[q] = count[q]
        /\ count'[p] = Cardinality(likes')
    BY <1>3 DEF Like, Trip, FirstCommand
  <2>2. count'[p] \in 0..Cardinality(Users)
    BY <1>1, <2>1
  <2> QED
    BY <2>1, <2>2
<1>4. ASSUME NEW p \in Procs, Unlike(p) \/ Status(p)
      PROVE  LikesTypeOK'
  BY <1>4 DEF Unlike, Status, Trip, FirstCommand
<1>5. ASSUME NEW p \in Procs, Card(p)
      PROVE  LikesTypeOK'
  BY <1>1, <1>5 DEF Card, Trip
<1>6. ASSUME NEW p \in Procs, LikeAnswered(p) \/ LikeFails(p)
      PROVE  LikesTypeOK'
  <2>1. 0 \in 0..Cardinality(Users)
    BY HandlersAssumption, FS_CardinalityType
  <2> QED
    BY <1>6, <2>1 DEF LikeAnswered, LikeFails, LikeForgets, Ends
<1>7. ASSUME UNCHANGED <<at, likeVars>>
      PROVE  LikesTypeOK'
  BY <1>7 DEF likeVars, answers
<1> HIDE DEF LikesIInv, LikesTypeOK
<1> QED
  BY <1>0, <1>2, <1>3, <1>4, <1>5, <1>6, <1>7 DEF LikesNext

LEMMA LikesTypedFirst ==
  ASSUME HandlersInit, LikesInit
  PROVE  LikesTyped
<1>1. 0 \in 0..Cardinality(Users)
  BY HandlersAssumption, FS_CardinalityType
<1> QED
  BY <1>1, LikesStart DEF HandlersInit, LikesInit, LikesTyped, LikesTypeOK

\* A request has a captcha from its GET to its token; one that was let through
\* by the signature has a token that was given out.
SessionTyped ==
  /\ RaceIInv /\ BlacklistIInv /\ SessionTypeOK

LEMMA SessionTypedKept ==
  ASSUME SessionTyped, [SessionNext]_<<at, now, sessionVars>>
  PROVE  SessionTyped'
<1>0. RaceIInv' /\ BlacklistIInv'
  BY RaceKept, BlacklistKept DEF SessionTyped
<1>1. /\ accounts' \in Nat /\ captcha' \in 0..captchas' /\ captchas' \in 0..MaxCaptchas
      /\ now' \in 0..MaxTicks /\ issued' \subseteq 0..now' /\ left' \subseteq issued'
      /\ spent' \subseteq 1..captchas'
  BY <1>0 DEF RaceIInv, BlacklistIInv, Tokens
<1> DEFINE RequestOK(p) ==
      /\ at[p] \in {"password", "delete", "token"} <=> verified[p] # NoCaptcha
      /\ at[p] \in {"blacklist", "serve"} => token[p] \in issued
      /\ wasLeft[p] => at[p] \in {"blacklist", "serve"}
<1>2. /\ at \in [Procs -> {"idle"} \cup SessionStages] /\ DOMAIN verified = Procs
      /\ DOMAIN token = Procs /\ DOMAIN wasLeft = Procs /\ \A p \in Procs : RequestOK(p)
  BY DEF SessionTyped, SessionTypeOK, RaceIInv, BlacklistIInv
<1> USE DEF SessionStages, LoginStages
<1>3. ASSUME NEW p \in Procs, Register(p) \/ InsertUser(p) \/ Login(p) \/ CheckPassword(p)
                              \/ DeleteCaptcha(p) \/ NotBlacklisted(p)
      PROVE  \A q \in Procs : RequestOK(q)'
  BY <1>2, <1>3 DEF Register, InsertUser, Login, CheckPassword, DeleteCaptcha, NotBlacklisted,
                    Trip, sessionVars, sessionData, sessionRequest
<1>4. ASSUME NEW p \in Procs, VerifyCaptcha(p) \/ GenerateToken(p) \/ Authorize(p)
      PROVE  \A q \in Procs : RequestOK(q)'
  BY <1>2, <1>4 DEF VerifyCaptcha, GenerateToken, Authorize, Trip, sessionData
<1>5. ASSUME NEW p \in Procs, Blacklisted(p) \/ Served(p) \/ SessionFails(p)
      PROVE  \A q \in Procs : RequestOK(q)'
  BY <1>2, <1>5 DEF Blacklisted, Served, SessionFails, Answered, Ends, sessionData
<1>6. ASSUME \/ GenerateCaptcha \/ CaptchaExpires \/ Logout \/ Tick
             \/ \E t \in Tokens : EntryExpires(t)
             \/ UNCHANGED <<at, now, sessionVars>>
      PROVE  \A q \in Procs : RequestOK(q)'
  <2>1. UNCHANGED <<at, verified, token, wasLeft, issued>>
    BY <1>6 DEF GenerateCaptcha, CaptchaExpires, Logout, Tick, EntryExpires,
                sessionVars, sessionData, sessionRequest
  <2> QED
    BY <1>2, <2>1
<1> HIDE DEF RequestOK
<1>7. \A q \in Procs : RequestOK(q)'
  BY <1>3, <1>4, <1>5, <1>6 DEF SessionNext
<1> QED
  BY <1>0, <1>1, <1>7 DEF SessionTyped, SessionTypeOK, RequestOK

LEMMA SessionTypedFirst ==
  ASSUME HandlersInit, SessionInit
  PROVE  SessionTyped
<1>1. SessionTypeOK
  BY SessionAssumption DEF HandlersInit, SessionInit, SessionTypeOK, NoCaptcha
<1> QED
  BY <1>1, RaceStarts, BlacklistStarts DEF SessionTyped

-----------------------------------------------------------------------------
(* The types of the rate limiter.                                           *)

\* The requests of minute m that have their INCR to come, and those that have
\* not been let through or refused.
Coming(m) == {p \in Procs : at[p] = "incr" /\ window[p] = m}
Inside(m) == {p \in Procs : at[p] \in RateStages /\ window[p] = m}

\* Each INCR, and each request let through, was asked for.
RateCounted(m) ==
  /\ counter[m] + Cardinality(Coming(m)) <= asked[m]
  /\ late[m] + Cardinality(Coming(m)) <= asked[m]
  /\ passed[m] + Cardinality(Inside(m)) <= asked[m]

\* A request knows the answer to its INCR from then to its check.
Counted(p) == nth[p] > 0 <=> at[p] \in {"expireCounter", "check"}

RateRest ==
  /\ counterTTL \subseteq Minutes /\ stuck \subseteq Minutes
  /\ \A p \in Procs : window[p] <= minute /\ Counted(p)

RateTyped ==
  /\ RateTypes /\ asked \in [Minutes -> 0..MaxAsked]
  /\ \A m \in Minutes : RateCounted(m)
  /\ RateRest

LEMMA RateTypedMeans == RateTyped => RateTypeOK
<1> SUFFICES ASSUME RateTyped
             PROVE  RateTypeOK
  OBVIOUS
<1>1. ASSUME NEW m \in Minutes
      PROVE  /\ counter[m] \in 0..MaxAsked /\ late[m] \in 0..MaxAsked
             /\ passed[m] <= asked[m] /\ asked[m] <= MaxAsked
  <2>1. Coming(m) \in SUBSET Procs /\ Inside(m) \in SUBSET Procs
    BY DEF Coming, Inside
  <2>2. Cardinality(Coming(m)) \in Nat /\ Cardinality(Inside(m)) \in Nat
    BY <2>1, ProcsCounted
  <2>3. /\ counter[m] \in Nat /\ late[m] \in Nat /\ passed[m] \in Nat
        /\ asked[m] \in 0..MaxAsked /\ MaxAsked \in Nat
    BY RateAssumption DEF RateTyped, RateTypes
  <2>4. RateCounted(m)
    BY DEF RateTyped
  <2> QED
    BY <2>2, <2>3, <2>4 DEF RateCounted
<1> QED
  BY <1>1 DEF RateTyped, RateRest, Counted, RateTypes, RateTypeOK

\* A step of p counts what p was about to.
LEMMA RateMoves ==
  ASSUME RateTypes, RateTypes', NEW p \in Procs, NEW m \in Minutes, RateCounted(m),
         \A q \in Procs \ {p} : at'[q] = at[q] /\ window'[q] = window[q],
         asked[m] \in Nat, asked'[m] \in Nat,
         counter'[m] + Bit(p \in Coming(m)') + asked[m]
           <= counter[m] + Bit(p \in Coming(m)) + asked'[m],
         late'[m] + Bit(p \in Coming(m)') + asked[m]
           <= late[m] + Bit(p \in Coming(m)) + asked'[m],
         passed'[m] + Bit(p \in Inside(m)') + asked[m]
           <= passed[m] + Bit(p \in Inside(m)) + asked'[m]
  PROVE  RateCounted(m)'
<1> DEFINE C == Coming(m)
           I == Inside(m)
           C1 == Coming(m)'
           I1 == Inside(m)'
           c == Bit(p \in C)
           i == Bit(p \in I)
           c1 == Bit(p \in C1)
           i1 == Bit(p \in I1)
<1>1. /\ C \in SUBSET Procs /\ I \in SUBSET Procs /\ C1 \in SUBSET Procs /\ I1 \in SUBSET Procs
      /\ C \ {p} = C1 \ {p} /\ I \ {p} = I1 \ {p}
  BY DEF Coming, Inside
<1>2. /\ counter[m] \in Nat /\ late[m] \in Nat /\ passed[m] \in Nat
      /\ counter'[m] \in Nat /\ late'[m] \in Nat /\ passed'[m] \in Nat
  BY DEF RateTypes
<1>3. c \in Nat /\ i \in Nat /\ c1 \in Nat /\ i1 \in Nat
  BY DEF Bit
<1> HIDE DEF C, I, C1, I1
<1>4. /\ Cardinality(C) \in Nat /\ Cardinality(C1) \in Nat
      /\ Cardinality(I) \in Nat /\ Cardinality(I1) \in Nat
      /\ Cardinality(C1) + c = Cardinality(C) + c1
      /\ Cardinality(I1) + i = Cardinality(I) + i1
  BY <1>1, OneMoves
<1>5. /\ counter'[m] + c1 + asked[m] <= counter[m] + c + asked'[m]
      /\ late'[m] + c1 + asked[m] <= late[m] + c + asked'[m]
      /\ passed'[m] + i1 + asked[m] <= passed[m] + i + asked'[m]
  BY DEF C, I, C1, I1
<1>6. /\ counter[m] + Cardinality(C) <= asked[m]
      /\ late[m] + Cardinality(C) <= asked[m]
      /\ passed[m] + Cardinality(I) <= asked[m]
  BY DEF RateCounted, C, I
<1> HIDE DEF c, i, c1, i1
<1>7. /\ counter'[m] + Cardinality(C1) <= asked'[m]
      /\ late'[m] + Cardinality(C1) <= asked'[m]
      /\ passed'[m] + Cardinality(I1) <= asked'[m]
  BY <1>2, <1>3, <1>4, <1>5, <1>6
<1> QED
  BY <1>7 DEF RateCounted, C1, I1

\* The books of a minute.
LEMMA RateCountedKept ==
  ASSUME RateTyped, RateTypes', RateNext, asked' \in [Minutes -> 0..MaxAsked],
         NEW m \in Minutes
  PROVE  RateCounted(m)'
<1>a. RateTypes /\ RateCounted(m) /\ asked \in [Minutes -> 0..MaxAsked]
  BY DEF RateTyped
<1>b. asked[m] \in Nat /\ asked'[m] \in Nat
  BY <1>a, RateAssumption
<1>c. /\ counter[m] \in Nat /\ late[m] \in Nat /\ passed[m] \in Nat
      /\ minute \in Minutes
  BY <1>a DEF RateTypes
<1>d. minute \in Nat /\ \A p \in Procs : window[p] \in Nat
  BY <1>a, RateAssumption DEF RateTypes, Minutes
<1>0. /\ RateTypes /\ RateCounted(m) /\ asked[m] \in Nat /\ asked'[m] \in Nat
      /\ counter[m] \in Nat /\ late[m] \in Nat /\ passed[m] \in Nat /\ minute \in Nat
  BY <1>a, <1>b, <1>c, <1>d
<1> USE DEF RateTypes, Trip, Ends, RateStages, Bit
<1>1. ASSUME NEW p \in Procs, Arrive(p)
      PROVE  RateCounted(m)'
  <2>1. /\ at[p] = "idle" /\ at' = [at EXCEPT ![p] = "incr"]
        /\ window' = [window EXCEPT ![p] = minute]
        /\ asked' = [asked EXCEPT ![minute] = @ + 1]
        /\ UNCHANGED <<counter, late, passed>>
    BY <1>1 DEF Arrive, rateKeys
  <2>2. asked'[m] = asked[m] + Bit(minute = m)
    BY <1>0, <2>1 DEF RateTyped
  <2>3. /\ \A q \in Procs \ {p} : at'[q] = at[q] /\ window'[q] = window[q]
        /\ p \notin Coming(m) /\ p \notin Inside(m)
        /\ p \in Coming(m)' <=> minute = m
        /\ p \in Inside(m)' <=> minute = m
    BY <1>0, <2>1 DEF Coming, Inside
  <2> HIDE DEF RateTypes
  <2> QED
    BY <1>0, <2>1, <2>2, <2>3, RateMoves
<1>2. ASSUME NEW p \in Procs, Incr(p)
      PROVE  RateCounted(m)'
  <2>1. /\ at[p] = "incr" /\ UNCHANGED <<window, asked, passed>>
        /\ at'[p] \in {"expireCounter", "check"} /\ \A q \in Procs \ {p} : at'[q] = at[q]
        /\ counter' = [counter EXCEPT ![window[p]] = @ + 1]
        /\ late' = IF minute > window[p] THEN [late EXCEPT ![window[p]] = @ + 1] ELSE late
    BY <1>0, <1>2 DEF Incr
  <2>2. /\ counter'[m] = counter[m] + Bit(window[p] = m)
        /\ late'[m] = late[m] \/ late'[m] = late[m] + Bit(window[p] = m)
    BY <1>0, <2>1
  <2>3. /\ p \in Coming(m) <=> window[p] = m
        /\ p \notin Coming(m)'
        /\ p \in Inside(m)' <=> p \in Inside(m)
    BY <1>0, <2>1 DEF Coming, Inside
  <2> HIDE DEF RateTypes
  <2> QED
    BY <1>0, <2>1, <2>2, <2>3, RateMoves
<1>3. ASSUME NEW p \in Procs, ExpireCounter(p) \/ Allowed(p)
      PROVE  RateCounted(m)'
  <2>1. UNCHANGED <<counter, late, passed, asked, window>>
    BY <1>3 DEF ExpireCounter, Allowed, rateVars, rateKeys, rateRequest, rateHistory
  <2>2. /\ \A q \in Procs \ {p} : at'[q] = at[q]
        /\ p \in Coming(m)' <=> p \in Coming(m)
        /\ p \in Inside(m)' <=> p \in Inside(m)
    BY <1>0, <1>3, <2>1 DEF ExpireCounter, Allowed, Coming, Inside
  <2> HIDE DEF RateTypes
  <2> QED
    BY <1>0, <2>1, <2>2, RateMoves
<1>4. ASSUME NEW p \in Procs, Check(p)
      PROVE  RateCounted(m)'
  <2>1. /\ at[p] = "check" /\ UNCHANGED <<counter, late, asked>>
        /\ at'[p] \in {"idle", "allowed"}
        /\ \A q \in Procs \ {p} : at'[q] = at[q] /\ window'[q] = window[q]
        /\ passed' = passed \/ passed' = [passed EXCEPT ![window[p]] = @ + 1]
    BY <1>0, <1>4 DEF Check, RequestForgets, rateKeys
  <2>2. passed'[m] = passed[m] \/ passed'[m] = passed[m] + Bit(window[p] = m)
    BY <1>0, <2>1
  <2>3. /\ p \notin Coming(m) /\ p \notin Coming(m)'
        /\ p \in Inside(m) <=> window[p] = m
        /\ p \notin Inside(m)'
    BY <1>0, <2>1 DEF Coming, Inside
  <2> HIDE DEF RateTypes
  <2> QED
    BY <1>0, <2>1, <2>2, <2>3, RateMoves
<1>5. ASSUME NEW p \in Procs, RateFails(p)
      PROVE  RateCounted(m)'
  <2>1. /\ UNCHANGED <<counter, late, passed, asked>> /\ at'[p] = "idle"
        /\ \A q \in Procs \ {p} : at'[q] = at[q] /\ window'[q] = window[q]
    BY <1>0, <1>5 DEF RateFails, RequestForgets, rateKeys
  <2>2. p \notin Coming(m)' /\ p \notin Inside(m)'
    BY <2>1 DEF Coming, Inside
  <2> HIDE DEF RateTypes
  <2> QED
    BY <1>0, <2>1, <2>2, RateMoves
<1>6. ASSUME NextMinute \/ \E k \in Minutes : CounterExpires(k)
      PROVE  RateCounted(m)'
  <2>1. UNCHANGED <<at, window, late, passed, asked>> /\ counter'[m] \in {0, counter[m]}
    BY <1>0, <1>6 DEF NextMinute, CounterExpires, rateKeys, rateRequest, rateHistory
  <2>2. Coming(m)' = Coming(m) /\ Inside(m)' = Inside(m)
    BY <2>1 DEF Coming, Inside
  <2>3. Coming(m) \in SUBSET Procs
    BY DEF Coming
  <2>4. Cardinality(Coming(m)) \in Nat
    BY <2>3, ProcsCounted
  <2> QED
    BY <1>0, <2>1, <2>2, <2>4 DEF RateCounted
<1> QED
  BY <1>1, <1>2, <1>3, <1>4, <1>5, <1>6 DEF RateNext

\* What a step of p must do for the rest.
LEMMA RateRestFrom ==
  ASSUME RateTypes, RateRest, RateTypes', NEW p \in Procs,
         \A q \in Procs \ {p} : at'[q] = at[q] /\ nth'[q] = nth[q] /\ window'[q] = window[q],
         minute' = minute, window'[p] \in {window[p], minute, 0},
         Counted(p)', counterTTL' \subseteq Minutes, stuck' \subseteq Minutes
  PROVE  RateRest'
<1>1. minute \in Nat /\ \A q \in Procs : window[q] \in Nat
  BY RateAssumption DEF RateTypes, Minutes
<1>2. ASSUME NEW q \in Procs
      PROVE  window'[q] <= minute'
  BY <1>1 DEF RateRest
<1>3. ASSUME NEW q \in Procs
      PROVE  Counted(q)'
  BY DEF RateRest, Counted
<1> QED
  BY <1>2, <1>3 DEF RateRest

LEMMA RateRestKept ==
  ASSUME RateTypes, RateRest, RateTypes', RateNext
  PROVE  RateRest'
<1>0. \A q \in Procs : window[q] \in Minutes /\ nth[q] \in Nat /\ nth'[q] \in Nat
  BY DEF RateTypes
<1>1. ASSUME NEW p \in Procs, Arrive(p)
      PROVE  RateRest'
  <2>1. /\ at[p] = "idle" /\ at' = [at EXCEPT ![p] = "incr"] /\ nth' = nth
        /\ window' = [window EXCEPT ![p] = minute]
        /\ UNCHANGED <<minute, counterTTL, stuck>>
    BY <1>1 DEF Arrive, Trip, rateKeys
  <2>2. /\ \A q \in Procs \ {p} : at'[q] = at[q] /\ nth'[q] = nth[q] /\ window'[q] = window[q]
        /\ at'[p] = "incr" /\ window'[p] = minute
    BY <2>1 DEF RateTypes
  <2>3. Counted(p)'
    BY <2>1, <2>2 DEF RateRest, Counted
  <2> QED
    BY <2>1, <2>2, <2>3, RateRestFrom DEF RateRest
<1>2. ASSUME NEW p \in Procs, Incr(p)
      PROVE  RateRest'
  <2>1. /\ nth' = [nth EXCEPT ![p] = counter'[window[p]]]
        /\ counter' = [counter EXCEPT ![window[p]] = @ + 1]
        /\ UNCHANGED <<minute, counterTTL, window, stuck>>
        /\ at' = [at EXCEPT ![p] = IF Creates(counter[window[p]] + 1) THEN "expireCounter" ELSE "check"]
    BY <1>2 DEF Incr, Trip
  <2>2. /\ \A q \in Procs \ {p} : at'[q] = at[q] /\ nth'[q] = nth[q] /\ window'[q] = window[q]
        /\ at'[p] \in {"expireCounter", "check"} /\ window'[p] = window[p]
    BY <2>1 DEF RateTypes
  <2>3. counter[window[p]] \in Nat /\ nth'[p] = counter[window[p]] + 1
    BY <1>0, <2>1 DEF RateTypes
  <2>4. nth'[p] > 0
    BY <2>3
  <2>5. Counted(p)'
    BY <2>2, <2>4 DEF Counted
  <2> QED
    BY <2>1, <2>2, <2>5, RateRestFrom DEF RateRest
<1>3. ASSUME NEW p \in Procs, ExpireCounter(p)
      PROVE  RateRest'
  <2>1. /\ at[p] = "expireCounter" /\ at' = [at EXCEPT ![p] = "check"]
        /\ counterTTL' \in {counterTTL, counterTTL \cup {window[p]}}
        /\ UNCHANGED <<minute, nth, window, stuck>>
    BY <1>3 DEF ExpireCounter, Trip, rateRequest, rateHistory
  <2>2. /\ \A q \in Procs \ {p} : at'[q] = at[q] /\ nth'[q] = nth[q] /\ window'[q] = window[q]
        /\ at'[p] = "check" /\ window'[p] = window[p]
    BY <2>1 DEF RateTypes
  <2>3. Counted(p)'
    BY <2>1, <2>2 DEF RateRest, Counted
  <2>4. counterTTL' \subseteq Minutes
    BY <1>0, <2>1 DEF RateRest
  <2> QED
    BY <2>1, <2>2, <2>3, <2>4, RateRestFrom DEF RateRest
<1>4. ASSUME NEW p \in Procs, Check(p) \/ RateFails(p)
      PROVE  RateRest'
  <2>1. /\ at'[p] \in {"idle", "allowed"} /\ \A q \in Procs \ {p} : at'[q] = at[q]
        /\ nth' = [nth EXCEPT ![p] = 0] /\ window' = [window EXCEPT ![p] = 0]
        /\ UNCHANGED <<minute, counterTTL>> /\ stuck' \in {stuck, stuck \cup {window[p]}}
    BY <1>4 DEF Check, RateFails, Trip, Ends, RequestForgets, rateKeys, RateTypes
  <2>2. /\ \A q \in Procs \ {p} : nth'[q] = nth[q] /\ window'[q] = window[q]
        /\ nth'[p] = 0 /\ window'[p] = 0
    BY <2>1 DEF RateTypes
  <2>3. Counted(p)'
    BY <2>1, <2>2 DEF Counted
  <2>4. stuck' \subseteq Minutes
    BY <1>0, <2>1 DEF RateRest
  <2> QED
    BY <2>1, <2>2, <2>3, <2>4, RateRestFrom DEF RateRest
<1>5. ASSUME NEW p \in Procs, Allowed(p)
      PROVE  RateRest'
  <2>1. /\ at[p] = "allowed" /\ at' = [at EXCEPT ![p] = "idle"]
        /\ UNCHANGED <<minute, nth, window, stuck, counterTTL>>
    BY <1>5 DEF Allowed, Trip, rateVars, rateKeys, rateRequest, rateHistory
  <2>2. /\ \A q \in Procs \ {p} : at'[q] = at[q]
        /\ at'[p] = "idle"
    BY <2>1 DEF RateTypes
  <2>3. Counted(p)'
    BY <2>1, <2>2 DEF RateRest, Counted
  <2> QED
    BY <2>1, <2>2, <2>3, RateRestFrom DEF RateRest
<1>6. ASSUME NextMinute \/ \E m \in Minutes : CounterExpires(m)
      PROVE  RateRest'
  <2>1. UNCHANGED <<at, window, nth, stuck>> /\ minute' \in {minute, minute + 1}
        /\ counterTTL' \subseteq counterTTL
    BY <1>6 DEF NextMinute, CounterExpires, rateKeys, rateRequest, rateHistory
  <2>2. minute \in Nat /\ \A q \in Procs : window[q] \in Nat
    BY RateAssumption DEF RateTypes, Minutes
  <2>3. \A q \in Procs : window'[q] <= minute'
    BY <2>1, <2>2 DEF RateRest
  <2>4. \A q \in Procs : Counted(q)'
    BY <2>1 DEF RateRest, Counted
  <2> QED
    BY <2>1, <2>3, <2>4 DEF RateRest
<1> QED
  BY <1>1, <1>2, <1>3, <1>4, <1>5, <1>6 DEF RateNext

LEMMA RateTypedKept ==
  ASSUME RateTyped, [RateNext]_<<at, rateVars>>
  PROVE  RateTyped'
<1>0. RateTypes /\ RateTypes'
  BY RateTypesKept DEF RateTyped
<1>1. CASE UNCHANGED <<at, rateVars>>
  BY <1>0, <1>1 DEF RateTyped, RateRest, Counted, RateCounted, Coming, Inside, rateVars, rateKeys, rateRequest,
                    rateHistory
<1>2. CASE RateNext
  <2>1. asked' \in [Minutes -> 0..MaxAsked]
    <3>1. ASSUME NEW p \in Procs, Arrive(p)
          PROVE  asked' \in [Minutes -> 0..MaxAsked]
      BY <3>1, RateAssumption DEF Arrive, RateTyped, RateTypes
    <3>2. ASSUME NEW p \in Procs, Incr(p) \/ ExpireCounter(p) \/ Check(p) \/ Allowed(p) \/ RateFails(p)
          PROVE  asked' = asked
      BY <3>2 DEF Incr, ExpireCounter, Check, Allowed, RateFails, rateVars, rateHistory
    <3>3. NextMinute \/ (\E m \in Minutes : CounterExpires(m)) => asked' = asked
      BY DEF NextMinute, CounterExpires, rateHistory
    <3> QED
      BY <1>2, <3>1, <3>2, <3>3 DEF RateNext, RateTyped
  <2>2. \A m \in Minutes : RateCounted(m)'
    BY <1>0, <1>2, <2>1, RateCountedKept
  <2>3. RateRest'
    BY <1>0, <1>2, RateRestKept DEF RateTyped
  <2> QED
    BY <1>0, <2>1, <2>2, <2>3 DEF RateTyped
<1> QED
  BY <1>1, <1>2

LEMMA RateTypedFirst ==
  ASSUME HandlersInit, RateInit
  PROVE  RateTyped
<1>1. RateTypes
  BY RateStarts
<1>2. ASSUME NEW m \in Minutes
      PROVE  RateCounted(m)
  <2>1. Coming(m) = {} /\ Inside(m) = {}
    BY DEF HandlersInit, Coming, Inside, RateStages
  <2>2. Cardinality(Coming(m)) = 0 /\ Cardinality(Inside(m)) = 0
    BY <2>1, FS_EmptySet
  <2>3. counter[m] = 0 /\ late[m] = 0 /\ passed[m] = 0 /\ asked[m] = 0
    BY DEF RateInit
  <2> QED
    BY <2>2, <2>3 DEF RateCounted
<1> QED
  BY <1>1, <1>2, RateAssumption DEF HandlersInit, RateInit, RateTyped, RateRest, Counted

-----------------------------------------------------------------------------
(* The types of the task's requests and comments.                           *)

\* A goroutine that serves nothing has no request, one that announces has
\* something to announce, and mentions are those of a comment to come.
Orderly(p) ==
  /\ at[p] = "idle" => req[p] = NoReq
  /\ at[p] = "announce" => held[p] # <<>>
  /\ mentions[p] # <<>> => at[p] = "comment"
  /\ Len(mentions[p]) <= MaxMentions

CommentsTyped ==
  /\ TaskTypes /\ NotesTypes
  /\ \A p \in Procs : Orderly(p)
  /\ unread \subseteq DOMAIN notes
  /\ calls <= MaxCalls /\ rejected + lost <= MaxFaults

LEMMA ServedIsSome == NoReq \notin ServedRequests
<1>1. \A r \in ServedRequests : DOMAIN r = {"call", "actor", "row", "new"}
  BY DEF ServedRequests
<1>2. DOMAIN NoReq = {}
  BY DEF NoReq
<1> QED
  BY <1>1, <1>2

LEMMA TailIsSome ==
  ASSUME NEW T, NEW s \in Seq(T), Len(s) > 1
  PROVE  Tail(s) # <<>>
<1>1. Tail(s) \in Seq(T) /\ Len(Tail(s)) = Len(s) - 1 /\ Len(s) \in Nat
  OBVIOUS
<1>2. Len(Tail(s)) # 0
  BY <1>1
<1>3. Len(<<>>) = 0
  OBVIOUS
<1> QED
  BY <1>2, <1>3, Zenon

LEMMA CommentsTypedMeans == CommentsTyped => CommentsTypeOK
<1> SUFFICES ASSUME CommentsTyped
             PROVE  CommentsTypeOK
  OBVIOUS
<1>1. /\ task \in Rows \cup {NoTask} /\ DOMAIN at = Procs /\ DOMAIN req = Procs
      /\ queued \in [Users -> Nat] /\ unread \subseteq DOMAIN notes
      /\ activities \in Nat /\ heat \in Nat /\ changes \in Nat
  BY DEF CommentsTyped, TaskTypes, NotesTypes
<1>2. calls \in 0..MaxCalls /\ rejected + lost \in 0..MaxFaults
  BY RequestsAssumption DEF CommentsTyped, TaskTypes
<1>3. \A n \in DOMAIN notes : notes[n].to \in Users
  <2>1. \A n \in DOMAIN notes : notes[n] \in StoredNotes
    BY DEF CommentsTyped, NotesTypes
  <2> QED
    BY <2>1 DEF StoredNotes
<1>4. ASSUME NEW p \in Procs
      PROVE  /\ at[p] = "idle" <=> req[p] = NoReq
             /\ held[p] \in Seq(DOMAIN notes)
             /\ at[p] \in {"idle", "update", "cache", "heat", "notify", "enqueue"} => held[p] = <<>>
             /\ at[p] = "announce" => held[p] # <<>>
             /\ at[p] \in Stages \cup {"comment"}
             /\ Len(mentions[p]) <= MaxMentions
             /\ at[p] # "comment" => mentions[p] = <<>>
  <2>1. req[p] \in ServedRequests => req[p] # NoReq
    BY ServedIsSome
  <2>2. Orderly(p)
    BY DEF CommentsTyped
  <2>3. /\ at[p] # "idle" => req[p] \in ServedRequests
        /\ at[p] \in Stages \cup {"comment"}
    BY DEF CommentsTyped, TaskTypes
  <2>4. /\ held[p] \in Seq(DOMAIN notes)
        /\ held[p] # <<>> => at[p] = "announce" \/ at[p] = "activity"
    BY DEF CommentsTyped, NotesTypes
  <2> QED
    BY <2>1, <2>2, <2>3, <2>4 DEF Orderly
<1> QED
  BY <1>1, <1>2, <1>3, <1>4 DEF CommentsTypeOK, RequestsTypeOK

\* Whoever is not p stays orderly.
LEMMA OrderlyFrom ==
  ASSUME CommentsTyped, NEW p \in Procs, Orderly(p)',
         \A q \in Procs \ {p} : /\ at'[q] = at[q] /\ req'[q] = req[q]
                                /\ held'[q] = held[q] /\ mentions'[q] = mentions[q]
  PROVE  \A q \in Procs : Orderly(q)'
BY DEF CommentsTyped, Orderly

\* p reads the row.
LEMMA OrderlyReads ==
  ASSUME CommentsTyped, NEW p \in Procs, NEW u \in Users, NEW new, NEW stage,
         stage \in {"update", "comment"}, Reads(p, u, new, stage),
         NEW m \in Seq(Users), Len(m) <= MaxMentions,
         m # <<>> => stage = "comment", mentions'[p] = m,
         \A q \in Procs \ {p} : mentions'[q] = mentions[q]
  PROVE  /\ \A q \in Procs : Orderly(q)'
         /\ calls' <= MaxCalls
         /\ UNCHANGED <<unread, notes, rejected, lost>>
<1>1. /\ at' = [at EXCEPT ![p] = stage] /\ calls < MaxCalls /\ calls' = calls + 1
      /\ UNCHANGED <<unread, notes, rejected, lost, held>>
      /\ \A q \in Procs \ {p} : req'[q] = req[q]
  BY DEF Reads, Trip, effects
<1>2. calls' <= MaxCalls
  BY <1>1, RequestsAssumption DEF CommentsTyped, TaskTypes
<1>3. /\ at'[p] = stage /\ mentions'[p] = m
      /\ \A q \in Procs \ {p} : at'[q] = at[q]
  BY <1>1 DEF CommentsTyped, TaskTypes
<1>4. Orderly(p)'
  BY <1>3 DEF Orderly
<1> QED
  BY <1>1, <1>2, <1>3, <1>4, OrderlyFrom

\* What the statements and round trips after the SELECT do.
LEMMA OrderlyGoesOn ==
  ASSUME CommentsTyped, NEW p \in Procs, at[p] # "comment", UNCHANGED mentions,
         \/ \E u \in Users : CreateTask(p, u)
         \/ Update(p) \/ DelCache(p) \/ Activity(p) \/ IncreaseHeat(p)
         \/ Notify(p) \/ NotifyFails(p) \/ Enqueue(p) \/ Announce(p)
         \/ RequestFails(p)
  PROVE  /\ \A q \in Procs : Orderly(q)'
         /\ calls' = calls
         /\ rejected' + lost' <= MaxFaults
<1>1. /\ DOMAIN at = Procs /\ DOMAIN req = Procs /\ DOMAIN held = Procs
      /\ mentions[p] = <<>> /\ Len(mentions[p]) <= MaxMentions
      /\ notes \in Seq(StoredNotes) /\ held[p] \in Seq(DOMAIN notes)
  BY DEF CommentsTyped, TaskTypes, NotesTypes, Orderly
<1>2. mentions'[p] = <<>> /\ Len(mentions'[p]) <= MaxMentions
  BY <1>1
<1>3. /\ \A q \in Procs \ {p} :
           at'[q] = at[q] /\ req'[q] = req[q] /\ held'[q] = held[q] /\ mentions'[q] = mentions[q]
      /\ at'[p] = "idle" => req'[p] = NoReq
      /\ at'[p] = "announce" => held'[p] # <<>>
  <2> USE <1>1 DEF Trip, Done, Ends
  <2>1. ASSUME NEW u \in Users, CreateTask(p, u)
        PROVE  /\ \A q \in Procs \ {p} :
                    /\ at'[q] = at[q] /\ req'[q] = req[q]
                    /\ held'[q] = held[q] /\ mentions'[q] = mentions[q]
               /\ at'[p] = "idle" => req'[p] = NoReq
               /\ at'[p] = "announce" => held'[p] # <<>>
    BY <2>1 DEF CreateTask
  <2>2. CASE Update(p) \/ DelCache(p)
    BY <2>2 DEF Update, DelCache
  <2>3. CASE Activity(p)
    BY <2>3 DEF Activity
  <2>4. CASE IncreaseHeat(p) \/ Enqueue(p)
    BY <2>4 DEF IncreaseHeat, Enqueue
  <2>5. CASE Notify(p)
    <3>1. <<Len(notes')>> # <<>>
      OBVIOUS
    <3> QED
      BY <2>5, <3>1 DEF Notify
  <2>8. CASE NotifyFails(p)
    BY <2>8 DEF NotifyFails
  <2>6. CASE Announce(p)
    <3>1. CASE Len(held[p]) > 1
      <4>1. UNCHANGED <<at, req>> /\ held' = [held EXCEPT ![p] = Tail(held[p])]
        BY <2>6, <3>1 DEF Announce
      <4>2. Tail(held[p]) # <<>>
        BY <3>1, TailIsSome
      <4> QED
        BY <2>6, <4>1, <4>2 DEF Announce
    <3>2. CASE ~ (Len(held[p]) > 1)
      BY <2>6, <3>2 DEF Announce
    <3> QED
      BY <3>1, <3>2
  <2>7. CASE RequestFails(p)
    BY <2>7 DEF RequestFails
  <2> QED
    BY <2>1, <2>2, <2>3, <2>4, <2>5, <2>6, <2>7, <2>8
<1>4. Orderly(p)'
  BY <1>2, <1>3 DEF Orderly
<1>5. /\ calls' = calls
      /\ \/ UNCHANGED <<rejected, lost>>
         \/ Faulty /\ rejected' = rejected + 1 /\ lost' = lost
         \/ Faulty /\ lost' = lost + 1 /\ rejected' = rejected
  BY DEF CreateTask, Update, DelCache, Activity, IncreaseHeat, Notify, NotifyFails, Enqueue,
         Announce, RequestFails
<1>6. rejected' + lost' <= MaxFaults
  BY <1>5, RequestsAssumption DEF CommentsTyped, TaskTypes, Faulty
<1> QED
  BY <1>3, <1>4, <1>5, <1>6, OrderlyFrom

\* Ids of unread notifications are those of rows.
LEMMA UnreadGoesOn ==
  ASSUME CommentsTyped, NEW p \in Procs,
         \/ \E u \in Users : CreateTask(p, u)
         \/ Update(p) \/ DelCache(p) \/ Activity(p) \/ IncreaseHeat(p)
         \/ Notify(p) \/ NotifyFails(p) \/ Enqueue(p) \/ Announce(p)
         \/ RequestFails(p)
  PROVE  unread' \subseteq DOMAIN notes'
<1>1. /\ notes \in Seq(StoredNotes) /\ held[p] \in Seq(DOMAIN notes)
      /\ unread \subseteq DOMAIN notes
      /\ at[p] = "announce" => held[p] # <<>>
  BY DEF CommentsTyped, NotesTypes, Orderly
<1>2. ASSUME Notify(p) \/ NotifyFails(p)
      PROVE  unread' \subseteq DOMAIN notes'
  <2>1. at[p] # "idle"
    BY <1>2 DEF Notify, NotifyFails, Trip
  <2>2. unread' = unread /\ (notes' = notes \/ \E u \in Receivers(req[p]) :
                                                 notes' = Append(notes, Note(req[p], u)))
    BY <1>2 DEF Notify, NotifyFails
  <2>3. \A u \in Receivers(req[p]) : Note(req[p], u) \in StoredNotes
    BY <2>1, StoredByRequest DEF CommentsTyped
  <2>4. ASSUME NEW u \in Receivers(req[p]), notes' = Append(notes, Note(req[p], u))
        PROVE  DOMAIN notes \subseteq DOMAIN notes'
    BY <1>1, <2>3, <2>4
  <2> QED
    BY <1>1, <2>2, <2>4
<1>3. ASSUME Announce(p)
      PROVE  unread' \subseteq DOMAIN notes'
  <2>1. at[p] = "announce" /\ unread' = unread \cup {Head(held[p])} /\ notes' = notes
    BY <1>3 DEF Announce
  <2>2. Head(held[p]) \in DOMAIN notes
    BY <1>1, <2>1
  <2> QED
    BY <1>1, <2>1, <2>2
<1>4. ASSUME \/ \E u \in Users : CreateTask(p, u)
             \/ Update(p) \/ DelCache(p) \/ Activity(p) \/ IncreaseHeat(p)
             \/ Enqueue(p) \/ RequestFails(p)
      PROVE  UNCHANGED <<unread, notes>>
  BY <1>4 DEF CreateTask, Update, DelCache, Activity, IncreaseHeat, Enqueue, RequestFails, effects
<1> QED
  BY <1>1, <1>2, <1>3, <1>4

LEMMA CommentsTypedKept ==
  ASSUME CommentsTyped, [CommentsNext]_commentVars
  PROVE  CommentsTyped'
<1>0. TaskTypes' /\ NotesTypes'
  BY TaskTypesKept, NotesTypesKept DEF CommentsTyped
<1> DEFINE Rest == /\ \A q \in Procs : Orderly(q)
                   /\ unread \subseteq DOMAIN notes
                   /\ calls <= MaxCalls /\ rejected + lost <= MaxFaults
<1>1. CASE UNCHANGED commentVars
  BY <1>0, <1>1 DEF CommentsTyped, Orderly, commentVars, requestVars, served, effects
<1>2. ASSUME NEW p \in Procs, NEW u \in Users, CreateComment(p, u)
      PROVE  Rest'
  <2>1. PICK m \in SeqOf(Users, MaxMentions) : mentions' = [mentions EXCEPT ![p] = m]
    BY <1>2 DEF CreateComment
  <2>2. m \in Seq(Users) /\ Len(m) <= MaxMentions
    BY CommentsAssumption DEF SeqOf
  <2>3. Reads(p, u, <<>>, "comment")
    BY <1>2 DEF CreateComment
  <2>4. mentions'[p] = m /\ \A q \in Procs \ {p} : mentions'[q] = mentions[q]
    BY <2>1 DEF CommentsTyped, TaskTypes
  <2>5. /\ \A q \in Procs : Orderly(q)'
        /\ calls' <= MaxCalls
        /\ UNCHANGED <<unread, notes, rejected, lost>>
    BY <2>2, <2>3, <2>4, OrderlyReads
  <2> QED
    BY <2>5 DEF CommentsTyped
<1>3. ASSUME NEW p \in Procs, NEW u \in Users, UpdateTask(p, u) \/ UpdateStatus(p, u),
             UNCHANGED mentions, at[p] \in Stages
      PROVE  Rest'
  <2>1. PICK new \in Columns : Reads(p, u, new, "update")
    BY <1>3, EditsAreColumns DEF UpdateTask, UpdateStatus
  <2>2. mentions'[p] = <<>> /\ mentions' = mentions
    BY <1>3 DEF CommentsTyped, Orderly, Stages
  <2>3. <<>> \in Seq(Users) /\ Len(<<>>) <= MaxMentions
    BY CommentsAssumption
  <2>4. /\ \A q \in Procs : Orderly(q)'
        /\ calls' <= MaxCalls
        /\ UNCHANGED <<unread, notes, rejected, lost>>
    BY <2>1, <2>2, <2>3, OrderlyReads
  <2> QED
    BY <2>4 DEF CommentsTyped
<1>4. ASSUME NEW p \in Procs, at[p] \in Stages, UNCHANGED mentions,
             \/ \E u \in Users : CreateTask(p, u)
             \/ Update(p) \/ DelCache(p) \/ Activity(p) \/ IncreaseHeat(p)
             \/ Notify(p) \/ NotifyFails(p) \/ Enqueue(p) \/ Announce(p)
             \/ RequestFails(p)
      PROVE  Rest'
  <2>1. at[p] # "comment"
    BY <1>4 DEF Stages
  <2>2. /\ \A q \in Procs : Orderly(q)'
        /\ calls' = calls /\ rejected' + lost' <= MaxFaults
    BY <1>4, <2>1, OrderlyGoesOn
  <2>3. unread' \subseteq DOMAIN notes'
    BY <1>4, UnreadGoesOn
  <2> QED
    BY <2>2, <2>3 DEF CommentsTyped
<1>5. ASSUME NEW p \in Procs, Comment(p)
      PROVE  Rest'
  <2>1. /\ at' = [at EXCEPT ![p] = "activity"] /\ mentions' = [mentions EXCEPT ![p] = <<>>]
        /\ UNCHANGED <<req, unread, calls, rejected, lost>>
    BY <1>5 DEF Comment, Trip
  <2>2. PICK new \in Seq(StoredNotes) :
          notes' = notes \o new /\ held' = [held EXCEPT ![p] = held'[p]]
    BY <1>5, CommentStores DEF CommentsTyped
  <2>3. /\ at'[p] = "activity" /\ mentions'[p] = <<>>
        /\ \A q \in Procs \ {p} :
             at'[q] = at[q] /\ req'[q] = req[q] /\ held'[q] = held[q] /\ mentions'[q] = mentions[q]
    BY <2>1, <2>2 DEF CommentsTyped, TaskTypes, NotesTypes
  <2>4. Orderly(p)'
    BY <2>3, CommentsAssumption DEF Orderly
  <2>5. \A q \in Procs : Orderly(q)'
    BY <2>3, <2>4, OrderlyFrom
  <2>6. DOMAIN notes \subseteq DOMAIN notes'
    BY <2>2, Appended DEF CommentsTyped, NotesTypes
  <2> QED
    BY <2>1, <2>5, <2>6 DEF CommentsTyped
<1>6. ASSUME NEW p \in Procs, CommentFails(p)
      PROVE  Rest'
  <2>1. /\ at' = [at EXCEPT ![p] = "idle"] /\ mentions' = [mentions EXCEPT ![p] = <<>>]
        /\ req' = [req EXCEPT ![p] = NoReq] /\ held' = [held EXCEPT ![p] = <<>>]
        /\ Faulty /\ lost' = lost + 1
        /\ UNCHANGED <<notes, unread, calls, rejected>>
    BY <1>6 DEF CommentFails, RequestFails, Done, Ends, effects
  <2>2. /\ at'[p] = "idle" /\ mentions'[p] = <<>> /\ req'[p] = NoReq
        /\ \A q \in Procs \ {p} :
             at'[q] = at[q] /\ req'[q] = req[q] /\ held'[q] = held[q] /\ mentions'[q] = mentions[q]
    BY <2>1 DEF CommentsTyped, TaskTypes, NotesTypes
  <2>3. Orderly(p)'
    BY <2>2, CommentsAssumption DEF Orderly
  <2>4. \A q \in Procs : Orderly(q)'
    BY <2>2, <2>3, OrderlyFrom
  <2>5. rejected' + lost' <= MaxFaults
    BY <2>1, RequestsAssumption DEF CommentsTyped, TaskTypes, Faulty
  <2> QED
    BY <2>1, <2>4, <2>5 DEF CommentsTyped
<1> HIDE DEF Rest
<1>7. ASSUME CommentsNext
      PROVE  Rest'
  BY <1>2, <1>3, <1>4, <1>5, <1>6, <1>7 DEF CommentsNext, RequestStep
<1>8. CASE CommentsNext
  BY <1>0, <1>7, <1>8 DEF CommentsTyped, Rest
<1> QED
  BY <1>1, <1>8

LEMMA CommentsTypedFirst ==
  ASSUME CommentsInit
  PROVE  CommentsTyped
<1>1. TaskTypes /\ NotesTypes
  BY TaskStarts, NotesStart
<1>2. /\ \A p \in Procs : at[p] = "idle" /\ req[p] = NoReq /\ mentions[p] = <<>>
      /\ unread = {} /\ calls = 0 /\ rejected = 0 /\ lost = 0
  BY DEF CommentsInit, RequestsInit, HandlersInit
<1>3. \A p \in Procs : Orderly(p)
  BY <1>2, CommentsAssumption DEF Orderly
<1> QED
  BY <1>1, <1>2, <1>3, RequestsAssumption DEF CommentsTyped

-----------------------------------------------------------------------------
(* The types of all components.                                             *)

\* One behaviour is about one component, whose types and what they rest on hold;
\* the other components are not touched.
HandlersTyped ==
  /\ about = "task" => CommentsTyped
  /\ about = "likes" => LikesTyped
  /\ about = "rate" => RateTyped
  /\ about = "session" => SessionTyped
  /\ about = "profile" => ProfileTyped

LEMMA HandlersTypedMeans == HandlersTyped => HandlersTypeOK
<1>1. LikesTyped => LikesTypeOK /\ \A p \in Procs : at[p] \in {"idle"} \cup LikeStages
  BY DEF LikesTyped, LikesIInv
<1>2. RateTyped => \A p \in Procs : at[p] \in {"idle", "allowed"} \cup RateStages
  BY DEF RateTyped, RateTypes
<1>3. SessionTyped => SessionTypeOK /\ \A p \in Procs : at[p] \in {"idle"} \cup SessionStages
  BY DEF SessionTyped, RaceIInv
<1>4. ProfileTyped => ProfileTypeOK /\ \A p \in Procs : at[p] \in {"idle"} \cup ProfileStages
  BY DEF ProfileTyped, ProfileIInv
<1> QED
  BY <1>1, <1>2, <1>3, <1>4, RateTypedMeans, CommentsTypedMeans
     DEF HandlersTyped, HandlersTypeOK

LEMMA HandlersTypedFirst ==
  ASSUME MCInit
  PROVE  HandlersTyped
BY CommentsTypedFirst, LikesTypedFirst, RateTypedFirst, SessionTypedFirst, ProfileTypedFirst
   DEF MCInit, HandlersTyped

LEMMA HandlersTypedKept ==
  ASSUME HandlersTyped, [MCNext \/ Finished]_allVars
  PROVE  HandlersTyped'
<1>1. CASE MCNext
  <2>1. about' = about
    BY <1>1 DEF MCNext
  <2>2. /\ about = "task" => CommentsNext
        /\ about = "likes" => LikesNext
        /\ about = "rate" => RateNext
        /\ about = "session" => SessionNext
        /\ about = "profile" => ProfileNext
    BY <1>1 DEF MCNext
  <2> QED
    BY <2>1, <2>2, CommentsTypedKept, LikesTypedKept, RateTypedKept, SessionTypedKept,
       ProfileTypedKept DEF HandlersTyped
<1>2. CASE UNCHANGED allVars
  <2>1. /\ about' = about /\ UNCHANGED commentVars /\ UNCHANGED <<at, likeVars>>
        /\ UNCHANGED <<at, rateVars>> /\ UNCHANGED <<at, now, sessionVars>>
        /\ UNCHANGED <<at, profileVars>>
    BY <1>2 DEF allVars, ofTask, commentVars, requestVars, served
  <2> QED
    BY <2>1, CommentsTypedKept, LikesTypedKept, RateTypedKept, SessionTypedKept,
       ProfileTypedKept DEF HandlersTyped
<1> QED
  BY <1>1, <1>2 DEF Finished

\* Whatever the component, its goroutines are at its own round trips and carry what
\* those need, and its tables, keys and counters stay in range, for any goroutines,
\* users, limits and bounds.
THEOREM HandlersTypesCorrect == MCSpec => []HandlersTypeOK
<1>1. MCInit => HandlersTyped
  BY HandlersTypedFirst
<1>2. HandlersTyped /\ [MCNext \/ Finished]_allVars => HandlersTyped'
  BY HandlersTypedKept
<1> QED
  BY <1>1, <1>2, HandlersTypedMeans, PTL DEF MCSpec

-----------------------------------------------------------------------------
(* The composition: a behaviour of MCSpec is one of the component it is about. *)

LEMMA TaskAlone == MCSpec => (about = "task" => CommentsSpec /\ [](about = "task"))
<1>1. MCInit => CommentsInit
  BY DEF MCInit
<1>2. about = "task" /\ [MCNext \/ Finished]_allVars
        => (about = "task")' /\ [CommentsNext]_(commentVars)
  BY DEF MCNext, Finished, allVars, commentVars, requestVars, served, ofTask
<1> QED
  BY <1>1, <1>2, PTL DEF MCSpec, CommentsSpec

LEMMA LikesAlone == MCSpec => (about = "likes" => LikesSpec /\ [](about = "likes"))
<1>1. MCInit => HandlersInit /\ LikesInit
  BY DEF MCInit
<1>2. about = "likes" /\ [MCNext \/ Finished]_allVars
        => (about = "likes")' /\ [LikesNext]_(<<at, likeVars>>)
  BY DEF MCNext, Finished, allVars
<1> QED
  BY <1>1, <1>2, PTL DEF MCSpec, LikesSpec

LEMMA RateAlone == MCSpec => (about = "rate" => RateSpec /\ [](about = "rate"))
<1>1. MCInit => HandlersInit /\ RateInit
  BY DEF MCInit
<1>2. about = "rate" /\ [MCNext \/ Finished]_allVars
        => (about = "rate")' /\ [RateNext]_(<<at, rateVars>>)
  BY DEF MCNext, Finished, allVars
<1> QED
  BY <1>1, <1>2, PTL DEF MCSpec, RateSpec

LEMMA SessionAlone == MCSpec => (about = "session" => SessionSpec /\ [](about = "session"))
<1>1. MCInit => HandlersInit /\ SessionInit
  BY DEF MCInit
<1>2. about = "session" /\ [MCNext \/ Finished]_allVars
        => (about = "session")' /\ [SessionNext]_(<<at, now, sessionVars>>)
  BY DEF MCNext, Finished, allVars
<1> QED
  BY <1>1, <1>2, PTL DEF MCSpec, SessionSpec

LEMMA ProfileAlone == MCSpec => (about = "profile" => ProfileSpec /\ [](about = "profile"))
<1>1. MCInit => HandlersInit /\ ProfileInit
  BY DEF MCInit
<1>2. about = "profile" /\ [MCNext \/ Finished]_allVars
        => (about = "profile")' /\ [ProfileNext]_(<<at, profileVars>>)
  BY DEF MCNext, Finished, allVars
<1> QED
  BY <1>1, <1>2, PTL DEF MCSpec, ProfileSpec

\* Whatever is proved of a component holds in the composition that TLC runs.
THEOREM BehavioursOfOne ==
  MCSpec => /\ about = "task" => CommentsSpec
            /\ about = "likes" => LikesSpec
            /\ about = "rate" => RateSpec
            /\ about = "session" => SessionSpec
            /\ about = "profile" => ProfileSpec
BY TaskAlone, LikesAlone, RateAlone, SessionAlone, ProfileAlone, PTL

\* So the invariants that TLC checks of the composition hold of it for all values of
\* the constants, in the behaviours about their component.
THEOREM InvariantsTogether ==
  MCSpec => /\ about = "task" =>
                 [](EffectsOnce /\ AssigneeTold /\ AnnouncedUnlessFailed /\ CommentNotesOnce)
            /\ about = "likes" => []LikeAnswers
            /\ about = "rate" => [](LimitKept /\ CountersExpire)
            /\ about = "session" => [](LoggedOutStaysOut /\ OnlyRacersSucceed)
            /\ about = "profile" => []ProfileSettled
BY BehavioursOfOne, TaskEffectsOnce, AssigneesTold, AnnouncedOrFailed, CommentTellsOnce,
   LikesAnswered, LimitHolds, CountersGetTTL, LoggedOutRefused, RacersBounded,
   ProfileReadsSettled, PTL

=============================================================================
