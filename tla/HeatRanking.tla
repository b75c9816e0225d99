---------------------------- MODULE HeatRanking ----------------------------
(***************************************************************************)
(* The hot rankings of internal/logic/task: increaseTaskHeat (task.go),    *)
(* which counts an update on the team's total, daily and weekly boards in  *)
(* five round trips, and the hourly decay of the total boards              *)
(* (heat_decay.go), which every instance runs under the lease of DistLock, *)
(* whose Clients are here the decay goroutines.                            *)
(*                                                                         *)
(* A score is a floating-point sum; what matters of it is which increments *)
(* are in it and how often each was multiplied by 0.9 since: its age.      *)
(***************************************************************************)
EXTENDS DistLock, Naturals, FiniteSets

CONSTANTS
  Teams,
  Requests,     \* calls of increaseTaskHeat
  NotCounted,   \* "the increment is not in the total score"
  MaxHours,     \* bound: ticks of each instance's ticker
  MaxMishaps    \* bound: crashes, lost replies, error answers, repeated keys

ASSUME HeatAssumption ==
  /\ NotCounted \notin Nat /\ IsFiniteSet(Clients) /\ IsFiniteSet(Teams)
  /\ MaxHours \in Nat /\ MaxMishaps \in Nat

\* The boards that expire: of each team, those of one day and of one week.
\* Another day has another key and shares nothing with these.
Boards == [team : Teams, kind : {"daily", "weekly"}]

VARIABLES
  teamOf,       \* teamOf[q]: the team whose task q updates
  step,         \* step[q]: q's next round trip
  halted,       \* requests that got an error, or whose instance died, there
  age,          \* age[q]: decays of q's increment on the total board
  board,        \* the requests counted on each daily and weekly board
  volatile,     \* the boards that have a TTL
  hour,         \* history: hours since the start
  ticked,       \* ticked[c]: the hour of c's last tick
  stage,        \* stage[c]: the next round trip of c's decay
  todo,         \* todo[c][k]: how often k is still in the keys c scanned
  repeated, mishaps   \* history: keys a SCAN repeated, all mishaps

lockVars == <<key, lock>>
requests == <<teamOf, step, halted>>
boards   == <<board, volatile>>
decay    == <<hour, ticked, stage, todo, repeated>>
heatVars == <<lockVars, requests, age, boards, decay, mishaps>>

HeatStages == {"total", "daily", "expDaily", "weekly", "expWeekly", "done"}

\* A decay goroutine has keys to go through only while it does, and a lock
\* only between TryLock and Unlock.
HeatTypeOK ==
  /\ TypeOK
  /\ teamOf \in [Requests -> Teams] /\ step \in [Requests -> HeatStages]
  /\ halted \subseteq Requests
  /\ age \in [Requests -> Nat \cup {NotCounted}]
  /\ board \in [Boards -> SUBSET Requests] /\ volatile \subseteq Boards
  /\ hour \in 0..MaxHours /\ ticked \in [Clients -> 0..MaxHours]
  /\ stage \in [Clients -> {"tick", "scan", "eval"}]
  /\ todo \in [Clients -> [Teams -> 0..2]]
  /\ \A c \in Clients :
       /\ stage[c] # "eval" => \A k \in Teams : todo[c][k] = 0
       /\ (lock[c] = NoToken) <=> (stage[c] = "tick")
  /\ repeated \in Nat /\ mishaps \in Nat

Daily(q)  == [team |-> teamOf[q], kind |-> "daily"]
Weekly(q) == [team |-> teamOf[q], kind |-> "weekly"]

HeatInit ==
  /\ Init
  /\ teamOf \in [Requests -> Teams]
  /\ step = [q \in Requests |-> "total"] /\ halted = {}
  /\ age = [q \in Requests |-> NotCounted]
  /\ board = [b \in Boards |-> {}] /\ volatile = {}
  /\ hour = 0 /\ ticked = [c \in Clients |-> 0]
  /\ stage = [c \in Clients |-> "tick"]
  /\ todo = [c \in Clients |-> [k \in Teams |-> 0]]
  /\ repeated = 0 /\ mishaps = 0

\* One more crash, lost reply, error answer or repeated key, within the bound.
Mishap == mishaps < MaxMishaps /\ mishaps' = mishaps + 1

-----------------------------------------------------------------------------
(* increaseTaskHeat.                                                        *)

\* q's next round trip is from, and then to.
Step(q, from, to) ==
  /\ q \notin halted
  /\ step[q] = from
  /\ step' = [step EXCEPT ![q] = to]
  /\ UNCHANGED <<lockVars, teamOf, halted, decay, mishaps>>

\* ZADD of the increment as the whole score.
IncrTotalByZAdd(q) ==
  /\ Step(q, "total", "daily")
  /\ age' = [r \in Requests |->
               IF r = q THEN 0 ELSE IF teamOf[r] = teamOf[q] THEN NotCounted ELSE age[r]]
  /\ UNCHANGED boards

\* ZINCRBY on the total board, which has no TTL.
IncrTotal(q) ==
  /\ Step(q, "total", "daily")
  /\ age' = [age EXCEPT ![q] = 0]
  /\ UNCHANGED boards

\* ZINCRBY on the daily or weekly board b.
IncrBoard(q, b) ==
  /\ board' = [board EXCEPT ![b] = @ \cup {q}]
  /\ UNCHANGED <<age, volatile>>

\* EXPIRE of b; on a board that has expired in the meantime it does nothing.
ExpireBoard(b) ==
  /\ volatile' = IF board[b] = {} THEN volatile ELSE volatile \cup {b}
  /\ UNCHANGED <<age, board>>

IncrDaily(q)    == Step(q, "daily", "expDaily") /\ IncrBoard(q, Daily(q))
ExpireDaily(q)  == Step(q, "expDaily", "weekly") /\ ExpireBoard(Daily(q))
IncrWeekly(q)   == Step(q, "weekly", "expWeekly") /\ IncrBoard(q, Weekly(q))

\* The last EXPIRE goes to the daily board again.
ExpireDailyTwice(q) == Step(q, "expWeekly", "done") /\ ExpireBoard(Daily(q))

ExpireWeekly(q) == Step(q, "expWeekly", "done") /\ ExpireBoard(Weekly(q))

\* An error at q's next round trip, a lost reply to its last one, or the death
\* of its instance: nothing repeats or undoes what was counted.
Halt(q) ==
  /\ step[q] # "done" /\ q \notin halted
  /\ Mishap
  /\ halted' = halted \cup {q}
  /\ UNCHANGED <<lockVars, teamOf, step, age, boards, decay>>

\* The TTL of a board: 7 days for a day's, 30 for a week's.
BoardExpires(b) ==
  /\ b \in volatile
  /\ board' = [board EXCEPT ![b] = {}]
  /\ volatile' = volatile \ {b}
  /\ UNCHANGED <<lockVars, requests, age, decay, mishaps>>

-----------------------------------------------------------------------------
(* The decay worker of each instance.                                       *)

notDecay == <<requests, age, boards>>

NewHour ==
  /\ hour < MaxHours
  /\ hour' = hour + 1
  /\ UNCHANGED <<lockVars, notDecay, ticked, stage, todo, repeated, mishaps>>

\* c's ticker fires; each instance's hour began with its own start.
Tick(c) ==
  /\ stage[c] = "tick" /\ ticked[c] < hour
  /\ ticked' = [ticked EXCEPT ![c] = hour]
  /\ UNCHANGED <<notDecay, hour, todo, repeated>>

DecayLocked(c) ==
  /\ Tick(c)
  /\ TryLock(c)
  /\ stage' = [stage EXCEPT ![c] = "scan"]
  /\ UNCHANGED mishaps

\* Another instance is at it: skip this hour.
DecaySkipped(c) ==
  /\ Tick(c)
  /\ TryLockBusy(c)
  /\ UNCHANGED <<stage, mishaps>>

DecayLockReplyLost(c) ==
  /\ Tick(c)
  /\ Mishap
  /\ TryLockReplyLost(c)
  /\ UNCHANGED stage

\* The total boards that exist.
HotKeys == {k \in Teams : \E q \in Requests : teamOf[q] = k /\ age[q] # NotCounted}

\* SCAN until the cursor is 0, without the daily and weekly boards.  While Redis
\* rehashes it may return a key twice, and nothing removes the second one.
Scan(c) ==
  /\ stage[c] = "scan"
  /\ \E twice \in SUBSET HotKeys :
       /\ Cardinality(twice) <= 1
       /\ IF twice = {} THEN UNCHANGED mishaps ELSE Mishap
       /\ repeated' = repeated + Cardinality(twice)
       /\ todo' = [todo EXCEPT ![c] = [k \in Teams |->
                     IF k \in twice THEN 2 ELSE IF k \in HotKeys THEN 1 ELSE 0]]
  /\ stage' = [stage EXCEPT ![c] = "eval"]
  /\ UNCHANGED <<lockVars, notDecay, hour, ticked>>

\* The scan's error is returned; the deferred Unlock is all that is left.
ScanFails(c) ==
  /\ stage[c] = "scan"
  /\ Mishap
  /\ stage' = [stage EXCEPT ![c] = "eval"]
  /\ UNCHANGED <<lockVars, notDecay, hour, ticked, todo, repeated>>

\* heatDecayLuaScript: every score of k is multiplied in one atomic step.
Decay(k) ==
  age' = [q \in Requests |->
            IF teamOf[q] = k /\ age[q] # NotCounted THEN age[q] + 1 ELSE age[q]]

\* c is at key k of its list and goes on to the next.
AtKey(c, k) ==
  /\ stage[c] = "eval"
  /\ todo[c][k] > 0
  /\ todo' = [todo EXCEPT ![c][k] = @ - 1]
  /\ UNCHANGED <<lockVars, requests, boards, hour, ticked, stage, repeated>>

DecayKey(c, k) ==
  /\ AtKey(c, k)
  /\ Decay(k)
  /\ UNCHANGED mishaps

\* A failed key is logged, and the others go on.
DecayKeyFails(c, k) ==
  /\ AtKey(c, k)
  /\ Mishap
  /\ UNCHANGED age

\* An error answer is tried again, as if nothing had happened.
DecayKeyRetried(c, k) ==
  /\ stage[c] = "eval" /\ todo[c][k] > 0
  /\ Mishap
  /\ Decay(k)
  /\ UNCHANGED <<lockVars, requests, boards, decay>>

\* The script ran and its reply was lost: logged like a failure.
DecayKeyReplyLost(c, k) ==
  /\ AtKey(c, k)
  /\ Mishap
  /\ Decay(k)

\* No key is left: the deferred Unlock.
DecayUnlock(c) ==
  /\ stage[c] = "eval"
  /\ \A k \in Teams : todo[c][k] = 0
  /\ Unlock(c)
  /\ stage' = [stage EXCEPT ![c] = "tick"]
  /\ UNCHANGED <<notDecay, hour, ticked, todo, repeated, mishaps>>

\* The instance dies, or the unlock script fails, which is only logged.
DecayAbandoned(c) ==
  /\ Mishap
  /\ Abandon(c)
  /\ stage' = [stage EXCEPT ![c] = "tick"]
  /\ todo' = [todo EXCEPT ![c] = [k \in Teams |-> 0]]
  /\ UNCHANGED <<notDecay, hour, ticked, repeated>>

LeaseExpires ==
  /\ Expire
  /\ UNCHANGED <<notDecay, decay, mishaps>>

-----------------------------------------------------------------------------
Increase(q) ==
  \/ IncrTotal(q) \/ IncrDaily(q) \/ ExpireDaily(q)
  \/ IncrWeekly(q) \/ ExpireWeekly(q)

DecayStep(c) ==
  \/ DecayLocked(c) \/ DecaySkipped(c) \/ DecayLockReplyLost(c)
  \/ Scan(c) \/ ScanFails(c)
  \/ \E k \in Teams : DecayKey(c, k) \/ DecayKeyFails(c, k) \/ DecayKeyReplyLost(c, k)
  \/ DecayUnlock(c) \/ DecayAbandoned(c)

HeatNext ==
  \/ \E q \in Requests : Increase(q) \/ Halt(q)
  \/ \E b \in Boards : BoardExpires(b)
  \/ NewHour
  \/ \E c \in Clients : DecayStep(c)
  \/ LeaseExpires

HeatSpec == HeatInit /\ [][HeatNext]_heatVars

-----------------------------------------------------------------------------
(* Properties                                                               *)

\* However increments and decays interleave, whoever fails: an update whose
\* ZINCRBY took effect stays in the total score (increaseTaskHeat, the decay
\* script), and no update is counted there that was not made.
IncrementsKept ==
  \A q \in Requests : (age[q] # NotCounted) <=> (step[q] # "total")

\* An hour multiplies a score at most once per instance, and once more for a
\* key that SCAN repeated: the lock, released at once, does not make it once per
\* hour, and a lost reply or an overrun lease does not add to it.
DecaysBounded ==
  \A q \in Requests :
    age[q] # NotCounted => age[q] <= hour * Cardinality(Clients) + repeated

\* A board lives for ever only while the request that created it, or added to
\* it, is between its ZINCRBY and its EXPIRE, or stopped right there.
BoardsExpire ==
  \A b \in Boards \ volatile :
    board[b] # {} =>
      \E q \in Requests :
        \/ step[q] = "expDaily" /\ Daily(q) = b
        \/ step[q] = "expWeekly" /\ Weekly(q) = b
=============================================================================
