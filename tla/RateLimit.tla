----------------------------- MODULE RateLimit -----------------------------
(***************************************************************************)
(* internal/logic/ratelimit: CheckTaskCreate of one user, or CheckLogin of *)
(* one address, which differ in the name of the key and in the limit.      *)
(* Each minute has a counter of its own.  The instances' clocks agree.     *)
(***************************************************************************)
EXTENDS Handlers, Naturals, FiniteSets

CONSTANTS
  Limit,        \* taskCreateLimit (10) or loginLimit (5)
  MaxMinutes,   \* bound: the clock
  MaxAsked      \* bound: requests in one minute

ASSUME RateAssumption == Limit \in Nat /\ MaxMinutes \in Nat /\ MaxAsked \in Nat

Minutes == 0..MaxMinutes

VARIABLES
  minute,       \* the clock
  counter,      \* counter[m]: the key of minute m; 0: there is none
  counterTTL,   \* the minutes whose key has a TTL
  window,       \* window[p]: the minute in which p's request came
  nth,          \* nth[p]: the answer to its INCR
  asked, passed,  \* history: requests of each minute, and those let through
  late,         \* history: late[m]: INCRs that came after minute m
  stuck         \* history: minutes of requests that failed between INCR and EXPIRE

rateKeys    == <<counter, counterTTL>>
rateRequest == <<window, nth>>
rateHistory == <<asked, passed, late, stuck>>
rateVars    == <<minute, rateKeys, rateRequest, rateHistory>>

RateStages == {"incr", "expireCounter", "check"}

RateTypeOK ==
  /\ minute \in Minutes /\ counterTTL \subseteq Minutes /\ stuck \subseteq Minutes
  /\ \A m \in Minutes :
       /\ counter[m] \in 0..MaxAsked /\ late[m] \in 0..MaxAsked
       /\ passed[m] <= asked[m] /\ asked[m] <= MaxAsked
  /\ \A p \in Procs :
       /\ window[p] <= minute
       /\ nth[p] > 0 <=> at[p] \in {"expireCounter", "check"}

RateInit ==
  /\ minute = 0
  /\ counter = [m \in Minutes |-> 0] /\ counterTTL = {}
  /\ window = [p \in Procs |-> 0] /\ nth = [p \in Procs |-> 0]
  /\ asked = [m \in Minutes |-> 0] /\ passed = [m \in Minutes |-> 0]
  /\ late = [m \in Minutes |-> 0] /\ stuck = {}

\* p reads the clock for the name of its key.
Arrive(p) ==
  /\ asked[minute] < MaxAsked
  /\ Trip(p, "idle", "incr")
  /\ window' = [window EXCEPT ![p] = minute]
  /\ asked' = [asked EXCEPT ![minute] = @ + 1]
  /\ UNCHANGED <<minute, rateKeys, nth, passed, late, stuck>>

\* The TTL is set by the request that reaches the limit.
CreatesAtLimit(n) == n = Limit

\* The request that created the key sets its TTL.
Creates(n) == n = 1

\* INCR.
Incr(p) ==
  LET m == window[p] IN
  /\ Trip(p, "incr", IF Creates(counter[m] + 1) THEN "expireCounter" ELSE "check")
  /\ counter' = [counter EXCEPT ![m] = @ + 1]
  /\ nth' = [nth EXCEPT ![p] = counter'[m]]
  /\ late' = IF minute > m THEN [late EXCEPT ![m] = @ + 1] ELSE late
  /\ UNCHANGED <<minute, counterTTL, window, asked, passed, stuck>>

\* EXPIRE, 60 s from now; of a key that is gone it does nothing.
ExpireCounter(p) ==
  LET m == window[p] IN
  /\ Trip(p, "expireCounter", "check")
  /\ counterTTL' = IF counter[m] > 0 THEN counterTTL \cup {m} ELSE counterTTL
  /\ UNCHANGED <<minute, counter, rateRequest, rateHistory>>

Over(n) == n > Limit

RequestForgets(p) ==
  /\ window' = [window EXCEPT ![p] = 0]
  /\ nth' = [nth EXCEPT ![p] = 0]

\* The request is refused, or goes on to what was limited.
Check(p) ==
  LET m == window[p] IN
  /\ at[p] = "check"
  /\ IF Over(nth[p])
       THEN Ends(p) /\ UNCHANGED passed
       ELSE Trip(p, "check", "allowed") /\ passed' = [passed EXCEPT ![m] = @ + 1]
  /\ RequestForgets(p)
  /\ UNCHANGED <<minute, rateKeys, asked, late, stuck>>

\* What was limited is over.
Allowed(p) ==
  /\ Trip(p, "allowed", "idle")
  /\ UNCHANGED rateVars

\* An error at the next round trip, a lost reply, or the death of the instance.
RateFails(p) ==
  /\ at[p] \in RateStages
  /\ Ends(p)
  /\ RequestForgets(p)
  /\ stuck' = IF at[p] = "expireCounter" THEN stuck \cup {window[p]} ELSE stuck
  /\ UNCHANGED <<minute, rateKeys, asked, passed, late>>

NextMinute ==
  /\ minute < MaxMinutes
  /\ minute' = minute + 1
  /\ UNCHANGED <<at, rateKeys, rateRequest, rateHistory>>

\* A TTL that is shorter than the minute.
Soon(m) == TRUE

\* 60 s from an EXPIRE that came in minute m, or later, end after minute m.
WindowOver(m) == m < minute

CounterExpires(m) ==
  /\ m \in counterTTL /\ WindowOver(m)
  /\ counter' = [counter EXCEPT ![m] = 0]
  /\ counterTTL' = counterTTL \ {m}
  /\ UNCHANGED <<at, minute, rateRequest, rateHistory>>

RateNext ==
  \/ \E p \in Procs :
       \/ Arrive(p) \/ Incr(p) \/ ExpireCounter(p) \/ Check(p) \/ Allowed(p)
       \/ RateFails(p)
  \/ NextMinute
  \/ \E m \in Minutes : CounterExpires(m)

RateSpec == HandlersInit /\ RateInit /\ [][RateNext]_<<at, rateVars>>

-----------------------------------------------------------------------------
(* Properties                                                               *)

\* However INCR, EXPIRE, failures and the end of the minute interleave: no more
\* than Limit requests of a minute go through, not counting those that came to
\* their INCR when the minute was over, for whom the counter may begin again.
LimitKept == \A m \in Minutes : passed[m] <= Limit + late[m]

\* A counter without a TTL is about to get one, or a request failed right there,
\* after which no other request of the minute sets it.
CountersExpire ==
  \A m \in Minutes :
    counter[m] > 0 /\ m \notin counterTTL =>
      m \in stuck \/ \E p \in Procs : at[p] = "expireCounter" /\ window[p] = m
=============================================================================
