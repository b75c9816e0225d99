------------------------------ MODULE Session ------------------------------
(***************************************************************************)
(* The account of one user name: Register, the captcha, Login, Logout and  *)
(* the middleware that lets requests with a token through (internal/logic/ *)
(* auth, internal/logic/jwt, internal/middleware/auth.go).  The clocks of  *)
(* Redis and the instances agree; a tick is any part of a token's life.    *)
(***************************************************************************)
EXTENDS Handlers, Naturals, FiniteSets

CONSTANTS
  MaxTicks,      \* bound: the clock
  Life,          \* defaultExpire of a token (2 h)
  BlacklistLife, \* tokenBlacklistExpire (2 h)
  MaxCaptchas    \* bound: captchas generated

ASSUME SessionAssumption ==
  /\ Life \in Nat \ {0} /\ BlacklistLife \in Nat /\ BlacklistLife >= Life
  /\ MaxCaptchas \in Nat /\ MaxTicks \in Nat

\* A token is known by its user and the second of its issue: two logins in the
\* same second get the same one.
Tokens == 0..MaxTicks
NoCaptcha == 0
NotListed == 0

VARIABLES
  now,           \* the clock
  accounts,      \* the rows with the user name
  captcha,       \* auth:captcha:{username}, by its number, or NoCaptcha
  captchas,      \* captchas generated so far
  issued,        \* the tokens that were given out
  listed,        \* listed[t]: when jwt:blacklist:{t} expires, or NotListed
  verified,      \* verified[p]: the captcha that p's login verified
  token,         \* token[p]: the token of p's request
  left,          \* history: the tokens somebody logged out with
  wasLeft,       \* history: wasLeft[p]: p's token was among them when p began
  uses,          \* history: uses[n]: logins that succeeded with captcha n
  spent,         \* history: captchas with which a login came to its DEL
  latecomers,    \* history: goroutines whose login verified a captcha in spent
  founders       \* history: requests between COUNT and INSERT at the first INSERT

sessionData    == <<accounts, captcha, captchas, issued, listed>>
sessionRequest == <<verified, token>>
races          == <<uses, spent, latecomers, founders>>
sessionVars    == <<sessionData, sessionRequest, left, wasLeft, races>>

LoginStages == {"captcha", "password", "delete", "token"}
SessionStages == LoginStages \cup {"insert", "blacklist", "serve"}

SessionTypeOK ==
  /\ accounts \in Nat /\ captcha \in 0..captchas /\ captchas \in 0..MaxCaptchas
  /\ now \in 0..MaxTicks /\ issued \subseteq 0..now /\ left \subseteq issued
  /\ \A p \in Procs :
       /\ at[p] \in {"password", "delete", "token"} <=> verified[p] # NoCaptcha
       /\ at[p] \in {"blacklist", "serve"} => token[p] \in issued
       /\ wasLeft[p] => at[p] \in {"blacklist", "serve"}
  /\ spent \subseteq 1..captchas

SessionInit ==
  /\ now = 0 /\ accounts = 0 /\ captcha = NoCaptcha /\ captchas = 0
  /\ issued = {} /\ listed = [t \in Tokens |-> NotListed]
  /\ verified = [p \in Procs |-> NoCaptcha] /\ token = [p \in Procs |-> 0]
  /\ left = {} /\ wasLeft = [p \in Procs |-> FALSE]
  /\ uses = [n \in 1..MaxCaptchas |-> 0] /\ spent = {} /\ latecomers = {} /\ founders = 0

-----------------------------------------------------------------------------
(* Register and the captcha.                                                *)

\* The COUNT finds no row with the name; bcrypt follows.
Register(p) ==
  /\ accounts = 0
  /\ Trip(p, "idle", "insert")
  /\ UNCHANGED <<now, sessionVars>>

InsertUser(p) ==
  /\ Trip(p, "insert", "idle")
  /\ accounts' = accounts + 1
  /\ founders' = IF accounts = 0 THEN Cardinality({q \in Procs : at[q] = "insert"}) ELSE founders
  /\ UNCHANGED <<now, captcha, captchas, issued, listed, sessionRequest, left, wasLeft,
                 uses, spent, latecomers>>

\* SETEX: an earlier captcha of the name is gone.
GenerateCaptcha ==
  /\ captchas < MaxCaptchas
  /\ captchas' = captchas + 1
  /\ captcha' = captchas'
  /\ UNCHANGED <<at, now, accounts, issued, listed, sessionRequest, left, wasLeft, races>>

\* The TTL of 5 minutes.
CaptchaExpires ==
  /\ captcha # NoCaptcha
  /\ captcha' = NoCaptcha
  /\ UNCHANGED <<at, now, accounts, captchas, issued, listed, sessionRequest, left, wasLeft, races>>

-----------------------------------------------------------------------------
(* Login.  One with a wrong code or password ends, as if it had failed.     *)

\* CheckLogin, which RateLimit models, lets the request through.
Login(p) ==
  /\ Trip(p, "idle", "captcha")
  /\ UNCHANGED <<now, sessionVars>>

\* GET finds the code that the request has.
VerifyCaptcha(p) ==
  /\ captcha # NoCaptcha
  /\ Trip(p, "captcha", "password")
  /\ verified' = [verified EXCEPT ![p] = captcha]
  /\ latecomers' = IF captcha \in spent THEN latecomers \cup {p} ELSE latecomers \ {p}
  /\ UNCHANGED <<now, sessionData, token, left, wasLeft, uses, spent, founders>>

\* The row is read, and bcrypt finds the password right.
CheckPassword(p) ==
  /\ accounts > 0
  /\ Trip(p, "password", "delete")
  /\ UNCHANGED <<now, sessionVars>>

\* The code stays.
KeepCaptcha(p) ==
  /\ Trip(p, "delete", "token")
  /\ spent' = spent \cup {verified[p]}
  /\ UNCHANGED <<now, sessionData, sessionRequest, left, wasLeft, uses, latecomers, founders>>

\* DEL, whatever code the key holds now.
DeleteCaptcha(p) ==
  /\ Trip(p, "delete", "token")
  /\ captcha' = NoCaptcha
  /\ spent' = spent \cup {verified[p]}
  /\ UNCHANGED <<now, accounts, captchas, issued, listed, sessionRequest, left, wasLeft,
                 uses, latecomers, founders>>

\* The clock is read for the token, which is the answer.
GenerateToken(p) ==
  /\ Trip(p, "token", "idle")
  /\ issued' = issued \cup {now}
  /\ uses' = [uses EXCEPT ![verified[p]] = @ + 1]
  /\ verified' = [verified EXCEPT ![p] = NoCaptcha]
  /\ UNCHANGED <<now, accounts, captcha, captchas, listed, token, left, wasLeft,
                 spent, latecomers, founders>>

-----------------------------------------------------------------------------
(* Requests with a token, and Logout, which is not behind the middleware.   *)

\* ParseToken: the token has not expired.
Authorize(p) ==
  \E t \in issued :
    /\ now < t + Life
    /\ Trip(p, "idle", "blacklist")
    /\ token' = [token EXCEPT ![p] = t]
    /\ wasLeft' = [wasLeft EXCEPT ![p] = t \in left]
    /\ UNCHANGED <<now, sessionData, verified, left, races>>

Answered(p) ==
  /\ Ends(p)
  /\ verified' = [verified EXCEPT ![p] = NoCaptcha]
  /\ token' = [token EXCEPT ![p] = 0]
  /\ wasLeft' = [wasLeft EXCEPT ![p] = FALSE]
  /\ UNCHANGED <<now, sessionData, left, races>>

\* EXISTS finds the token: 401.
Blacklisted(p) ==
  /\ at[p] = "blacklist"
  /\ listed[token[p]] # NotListed
  /\ Answered(p)

\* EXISTS does not find it: the handler runs.
NotBlacklisted(p) ==
  /\ Trip(p, "blacklist", "serve")
  /\ listed[token[p]] = NotListed
  /\ UNCHANGED <<now, sessionVars>>

Served(p) ==
  /\ at[p] = "serve"
  /\ Answered(p)

\* The entry ends one tick before the token that was issued now.
ListedTooShort == now + Life - 1

\* Every entry has the TTL of tokenBlacklistExpire.
ListedUntil == now + BlacklistLife

\* SETEX of a token that was given out; expired or not is not asked.
Logout ==
  \E t \in issued :
    /\ listed' = [listed EXCEPT ![t] = ListedUntil]
    /\ left' = left \cup {t}
    /\ UNCHANGED <<at, now, accounts, captcha, captchas, issued, sessionRequest, wasLeft, races>>

EntryExpires(t) ==
  /\ listed[t] # NotListed /\ listed[t] <= now
  /\ listed' = [listed EXCEPT ![t] = NotListed]
  /\ UNCHANGED <<at, now, accounts, captcha, captchas, issued, sessionRequest, left, wasLeft, races>>

Tick ==
  /\ now < MaxTicks
  /\ now' = now + 1
  /\ UNCHANGED <<at, sessionVars>>

\* An error, a lost reply, or the death of the instance; also a wrong
\* code or password.
SessionFails(p) ==
  /\ at[p] \in SessionStages
  /\ Answered(p)

SessionNext ==
  \/ \E p \in Procs :
       \/ Register(p) \/ InsertUser(p)
       \/ Login(p) \/ VerifyCaptcha(p) \/ CheckPassword(p)
       \/ DeleteCaptcha(p) \/ GenerateToken(p)
       \/ Authorize(p) \/ Blacklisted(p) \/ NotBlacklisted(p) \/ Served(p)
       \/ SessionFails(p)
  \/ GenerateCaptcha \/ CaptchaExpires \/ Logout
  \/ \E t \in Tokens : EntryExpires(t)
  \/ Tick

SessionSpec ==
  HandlersInit /\ SessionInit /\ [][SessionNext]_<<at, now, sessionVars>>

-----------------------------------------------------------------------------
(* Properties                                                               *)

\* A token that was logged out before a request began does not get the request
\* to its handler, until the token's own life is over: the entry in the black
\* list, written later than the token with the same TTL, outlives it.  Between
\* ParseToken and EXISTS both may end.
LoggedOutStaysOut ==
  \A p \in Procs :
    at[p] = "serve" /\ wasLeft[p] => now >= token[p] + Life

\* A login deletes its captcha before it answers: whoever verifies a captcha after
\* the first login with it came to that DEL does not get a token, so that a captcha
\* lets in those who raced for it, at most one login per goroutine.  Register counts
\* and inserts in two round trips: a name gets no more rows than there were requests
\* between the two when the first row came.
OnlyRacersSucceed ==
  /\ \A p \in Procs : at[p] = "token" => p \notin latecomers
  /\ \A n \in 1..MaxCaptchas : uses[n] <= Cardinality(Procs)
  /\ accounts <= founders

\* What auth.go says of the DEL after a login, and captcha.go of the operation: a
\* captcha is used once.
CaptchaUsedOnce == \A n \in 1..MaxCaptchas : uses[n] <= 1
=============================================================================
