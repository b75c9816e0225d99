-------------------------- MODULE HeatRanking_proofs --------------------------
(***************************************************************************)
(* Proofs about the Redis lease, for any sets of clients and tokens, and    *)
(* about the hot rankings, whose decay uses it, for any teams, requests and *)
(* instances.                                                               *)
(***************************************************************************)
EXTENDS HeatRanking, FiniteSetTheorems, TLAPS

-----------------------------------------------------------------------------
(* The lease.                                                               *)

\* The variables of DistLock keep their types: the key stores a token or
\* nothing, and so does each client (lock.go type Lock).
THEOREM TypeCorrect == Spec => []TypeOK
<1>1. Init => TypeOK
  BY DEF Init, TypeOK
<1>2. TypeOK /\ [Next]_vars => TypeOK'
  BY DEF TypeOK, Next, vars, TryLock, TryLockReplyLost, TryLockBusy, Unlock,
         Abandon, Expire, SetNX, UnlockWithToken, RandomTokens
<1> QED
  BY <1>1, <1>2, PTL DEF Spec

\* Two clients never hold the same token, so at most one of them holds the one
\* Redis stores (lock.go randomToken and SET NX).
THEOREM OwnerUnique == Spec => []OneOwner
<1>1. Init => OneOwner
  BY DEF Init, OneOwner
<1>2. TypeOK /\ OneOwner /\ [Next]_vars => OneOwner'
  <2> SUFFICES ASSUME TypeOK, OneOwner, [Next]_vars
               PROVE  OneOwner'
    OBVIOUS
  <2>1. ASSUME NEW c \in Clients, TryLock(c)
        PROVE  OneOwner'
    BY <2>1 DEF TypeOK, OneOwner, TryLock, RandomTokens
  <2>2. ASSUME NEW c \in Clients, TryLockReplyLost(c) \/ TryLockBusy(c)
        PROVE  OneOwner'
    BY <2>2 DEF OneOwner, TryLockReplyLost, TryLockBusy, vars
  <2>3. ASSUME NEW c \in Clients, Unlock(c) \/ Abandon(c)
        PROVE  OneOwner'
    BY <2>3 DEF TypeOK, OneOwner, Unlock, Abandon
  <2>4. CASE Expire \/ UNCHANGED vars
    BY <2>4 DEF OneOwner, Expire, vars
  <2> QED
    BY <2>1, <2>2, <2>3, <2>4 DEF Next
<1> QED
  BY <1>1, <1>2, TypeCorrect, PTL DEF Spec

\* A stale client never removes or replaces the lease of another: a lease ends
\* by its TTL or by the client that holds its token (lock.go unlockScript).
THEOREM LeaseKept == Spec => LeaseEndsByOwnerOrTTL
<1> DEFINE Kept ==
      key # NoToken /\ key' # key =>
        \/ key' = NoToken /\ lock' = lock
        \/ \E c \in Clients : Holds(c) /\ lock'[c] = NoToken
<1>1. TypeOK /\ [Next]_vars => [Kept]_vars
  <2> SUFFICES ASSUME TypeOK, Next, key # NoToken, key' # key
               PROVE  \/ key' = NoToken /\ lock' = lock
                      \/ \E c \in Clients : Holds(c) /\ lock'[c] = NoToken
    OBVIOUS
  <2>1. ASSUME NEW c \in Clients, Unlock(c)
        PROVE  Holds(c) /\ lock'[c] = NoToken
    BY <2>1 DEF TypeOK, Unlock, UnlockWithToken, Holds
  <2>2. CASE Expire
    BY <2>2 DEF Expire
  <2>3. ASSUME NEW c \in Clients,
               TryLock(c) \/ TryLockReplyLost(c) \/ TryLockBusy(c) \/ Abandon(c)
        PROVE  FALSE
    BY <2>3 DEF TryLock, TryLockReplyLost, TryLockBusy, Abandon, SetNX, vars
  <2> QED
    BY <2>1, <2>2, <2>3 DEF Next
<1> QED
  BY <1>1, TypeCorrect, PTL DEF Spec, LeaseEndsByOwnerOrTTL

-----------------------------------------------------------------------------
(* The decay workers are clients of the lease.                              *)

\* The decay workers use the lease as DistLock has it: every step of theirs is a
\* step of a client of the lease, or does not touch it (heat_decay.go).
THEOREM HeatImplementsLock == HeatSpec => Spec
<1>1. HeatInit => Init
  BY DEF HeatInit
<1>2. [HeatNext]_heatVars => [Next]_vars
  <2> USE DEF vars, lockVars
  <2>1. ASSUME NEW q \in Requests, Increase(q) \/ Halt(q)
        PROVE  UNCHANGED vars
    BY <2>1 DEF Increase, Halt, IncrTotal, IncrDaily, ExpireDaily, IncrWeekly,
                ExpireWeekly, Step
  <2>2. ASSUME NEW b \in Boards, BoardExpires(b)
        PROVE  UNCHANGED vars
    BY <2>2 DEF BoardExpires
  <2>3. ASSUME NewHour
        PROVE  UNCHANGED vars
    BY <2>3 DEF NewHour
  <2>4. ASSUME NEW c \in Clients, DecayStep(c)
        PROVE  [Next]_vars
    BY <2>4 DEF DecayStep, DecayLocked, DecaySkipped, DecayLockReplyLost, Scan, ScanFails,
                DecayKey, DecayKeyFails, DecayKeyReplyLost, AtKey, DecayUnlock,
                DecayAbandoned, Next
  <2>5. ASSUME LeaseExpires
        PROVE  Next
    BY <2>5 DEF LeaseExpires, Next
  <2>6. CASE UNCHANGED heatVars
    BY <2>6 DEF heatVars
  <2> QED
    BY <2>1, <2>2, <2>3, <2>4, <2>5, <2>6 DEF HeatNext
<1> QED
  BY <1>1, <1>2, PTL DEF HeatSpec, Spec

\* So the lease of the decay has one owner.
THEOREM HeatLeaseOwned == HeatSpec => []OneOwner
BY HeatImplementsLock, OwnerUnique, PTL

\* And no instance that is late takes the lease away from another.
THEOREM HeatLeaseKept == HeatSpec => LeaseEndsByOwnerOrTTL
BY HeatImplementsLock, LeaseKept, PTL

-----------------------------------------------------------------------------
(* The scores and the boards.                                               *)

HeatTypes ==
  /\ teamOf \in [Requests -> Teams] /\ step \in [Requests -> HeatStages]
  /\ age \in [Requests -> Nat \cup {NotCounted}]
  /\ board \in [Boards -> SUBSET Requests]

\* What the steps of the decay workers leave alone.
LEMMA DecayStepApart ==
  ASSUME NEW c \in Clients, DecayStep(c)
  PROVE  /\ UNCHANGED <<requests, boards>>
         /\ age' = age \/ \E k \in Teams : Decay(k)
BY DEF DecayStep, DecayLocked, DecaySkipped, DecayLockReplyLost, Scan, ScanFails, Tick,
       DecayKey, DecayKeyFails, DecayKeyReplyLost, AtKey, DecayUnlock, DecayAbandoned,
       notDecay

LEMMA HeatTypesKept ==
  ASSUME HeatTypes, [HeatNext]_heatVars
  PROVE  HeatTypes'
<1> USE DEF HeatTypes, requests, boards
<1>1. ASSUME NEW q \in Requests, Increase(q)
      PROVE  HeatTypes'
  <2>1. Daily(q) \in Boards /\ Weekly(q) \in Boards
    BY DEF Daily, Weekly, Boards
  <2>2. CASE IncrTotal(q) \/ ExpireDaily(q) \/ ExpireWeekly(q)
    BY <2>2 DEF IncrTotal, ExpireDaily, ExpireWeekly, Step, ExpireBoard, HeatStages
  <2>3. CASE IncrDaily(q) \/ IncrWeekly(q)
    BY <2>1, <2>3 DEF IncrDaily, IncrWeekly, Step, IncrBoard, HeatStages
  <2> QED
    BY <1>1, <2>2, <2>3 DEF Increase
<1>2. ASSUME NEW q \in Requests, Halt(q)
      PROVE  HeatTypes'
  BY <1>2 DEF Halt
<1>3. ASSUME NEW b \in Boards, BoardExpires(b)
      PROVE  HeatTypes'
  BY <1>3 DEF BoardExpires
<1>4. ASSUME NEW c \in Clients, DecayStep(c)
      PROVE  HeatTypes'
  BY <1>4, DecayStepApart DEF Decay
<1>5. CASE NewHour \/ LeaseExpires \/ UNCHANGED heatVars
  BY <1>5 DEF NewHour, LeaseExpires, notDecay, heatVars
<1> QED
  BY <1>1, <1>2, <1>3, <1>4, <1>5 DEF HeatNext

LEMMA HeatStarts ==
  ASSUME HeatInit
  PROVE  HeatTypes
BY DEF HeatInit, HeatTypes, HeatStages

\* Neither a decay nor another update removes an update from a total score, and
\* none is counted that was not made (task.go increaseTaskHeat, heat_decay.go).
THEOREM IncrementsStay == HeatSpec => []IncrementsKept
<1>1. HeatInit => IncrementsKept
  BY DEF HeatInit, IncrementsKept
<1>2. HeatTypes /\ IncrementsKept /\ [HeatNext]_heatVars => IncrementsKept'
  <2> SUFFICES ASSUME HeatTypes, IncrementsKept, [HeatNext]_heatVars
               PROVE  IncrementsKept'
    OBVIOUS
  <2> USE DEF HeatTypes, IncrementsKept, requests
  <2>1. ASSUME NEW q \in Requests, IncrTotal(q)
        PROVE  IncrementsKept'
    BY <2>1, HeatAssumption DEF IncrTotal, Step
  <2>2. ASSUME NEW q \in Requests,
               IncrDaily(q) \/ ExpireDaily(q) \/ IncrWeekly(q) \/ ExpireWeekly(q)
        PROVE  IncrementsKept'
    BY <2>2 DEF IncrDaily, ExpireDaily, IncrWeekly, ExpireWeekly, Step,
                IncrBoard, ExpireBoard
  <2>3. ASSUME NEW c \in Clients, DecayStep(c)
        PROVE  IncrementsKept'
    BY <2>3, DecayStepApart, HeatAssumption DEF Decay
  <2>4. CASE (\E q \in Requests : Halt(q)) \/ (\E b \in Boards : BoardExpires(b))
    BY <2>4 DEF Halt, BoardExpires
  <2>5. CASE NewHour \/ LeaseExpires \/ UNCHANGED heatVars
    BY <2>5 DEF NewHour, LeaseExpires, notDecay, heatVars
  <2> QED
    BY <2>1, <2>2, <2>3, <2>4, <2>5 DEF HeatNext, Increase
<1>3. HeatInit => HeatTypes
  BY HeatStarts
<1>4. HeatTypes /\ [HeatNext]_heatVars => HeatTypes'
  BY HeatTypesKept
<1> QED
  BY <1>1, <1>2, <1>3, <1>4, PTL DEF HeatSpec

\* A daily or weekly board without a TTL has a request at the EXPIRE that
\* follows its ZINCRBY, or one that stopped there (task.go increaseTaskHeat).
THEOREM BoardsGetTTL == HeatSpec => []BoardsExpire
<1>1. HeatInit => BoardsExpire
  BY DEF HeatInit, BoardsExpire
<1>2. HeatTypes /\ BoardsExpire /\ [HeatNext]_heatVars => BoardsExpire'
  <2> SUFFICES ASSUME HeatTypes, BoardsExpire, [HeatNext]_heatVars
               PROVE  BoardsExpire'
    OBVIOUS
  <2> USE DEF HeatTypes, BoardsExpire, requests, boards, Daily, Weekly
  <2>1. ASSUME NEW q \in Requests, IncrTotal(q)
        PROVE  BoardsExpire'
    BY <2>1 DEF IncrTotal, Step
  <2>2. ASSUME NEW q \in Requests, IncrDaily(q) \/ IncrWeekly(q)
        PROVE  BoardsExpire'
    BY <2>2 DEF IncrDaily, IncrWeekly, Step, IncrBoard
  <2>3. ASSUME NEW q \in Requests, ExpireDaily(q) \/ ExpireWeekly(q)
        PROVE  BoardsExpire'
    BY <2>3 DEF ExpireDaily, ExpireWeekly, Step, ExpireBoard
  <2>4. ASSUME NEW b \in Boards, BoardExpires(b)
        PROVE  BoardsExpire'
    BY <2>4 DEF BoardExpires
  <2>5. ASSUME NEW c \in Clients, DecayStep(c)
        PROVE  BoardsExpire'
    BY <2>5, DecayStepApart
  <2>6. ASSUME NEW q \in Requests, Halt(q)
        PROVE  BoardsExpire'
    BY <2>6 DEF Halt
  <2>7. CASE NewHour \/ LeaseExpires \/ UNCHANGED heatVars
    BY <2>7 DEF NewHour, LeaseExpires, notDecay, heatVars
  <2> QED
    BY <2>1, <2>2, <2>3, <2>4, <2>5, <2>6, <2>7 DEF HeatNext, Increase
<1>3. HeatInit => HeatTypes
  BY HeatStarts
<1>4. HeatTypes /\ [HeatNext]_heatVars => HeatTypes'
  BY HeatTypesKept
<1> QED
  BY <1>1, <1>2, <1>3, <1>4, PTL DEF HeatSpec

-----------------------------------------------------------------------------
(* The decay workers, and how often they may multiply a score.              *)

\* A worker has keys left only while it goes through them, and it has a lock
\* exactly between TryLock and Unlock.
DecayTypes ==
  /\ halted \subseteq Requests /\ volatile \subseteq Boards
  /\ hour \in 0..MaxHours /\ ticked \in [Clients -> 0..MaxHours]
  /\ stage \in [Clients -> {"tick", "scan", "eval"}]
  /\ todo \in [Clients -> [Teams -> 0..2]]
  /\ \A c \in Clients : stage[c] # "eval" => \A k \in Teams : todo[c][k] = 0
  /\ repeated \in Nat /\ mishaps \in Nat

LocksMatch == \A c \in Clients : (lock[c] = NoToken) <=> (stage[c] = "tick")

\* SCAN repeats at most one key.
LEMMA RepeatsCounted ==
  ASSUME NEW S \in SUBSET HotKeys
  PROVE  Cardinality(S) \in Nat /\ (S # {} => Cardinality(S) >= 1)
<1>1. IsFiniteSet(S)
  BY HeatAssumption, FS_Subset DEF HotKeys
<1> QED
  BY <1>1, FS_CardinalityType, FS_EmptySet

LEMMA DecayTypesKept ==
  ASSUME HeatTypes, DecayTypes, [HeatNext]_heatVars
  PROVE  DecayTypes'
<1> USE DEF DecayTypes
<1>1. ASSUME NEW q \in Requests, Increase(q) \/ Halt(q)
      PROVE  DecayTypes'
  <2>1. /\ UNCHANGED decay /\ halted' \subseteq Requests /\ volatile' \subseteq Boards
        /\ mishaps' = mishaps \/ mishaps' = mishaps + 1
    BY <1>1 DEF Increase, Halt, IncrTotal, IncrDaily, ExpireDaily, IncrWeekly, ExpireWeekly,
                Step, IncrBoard, ExpireBoard, Mishap, Daily, Weekly, Boards, HeatTypes, boards
  <2> QED
    BY <2>1 DEF decay
<1>2. ASSUME NEW b \in Boards, BoardExpires(b)
      PROVE  DecayTypes'
  BY <1>2 DEF BoardExpires, requests, decay
<1>3. CASE NewHour
  BY <1>3, HeatAssumption DEF NewHour, notDecay, requests, boards
<1>4. ASSUME NEW c \in Clients, DecayStep(c)
      PROVE  DecayTypes'
  <2> USE DEF notDecay, requests, boards
  <2>1. CASE DecayLocked(c)
    BY <2>1 DEF DecayLocked, Tick
  <2>2. CASE DecaySkipped(c) \/ DecayLockReplyLost(c)
    BY <2>2 DEF DecaySkipped, DecayLockReplyLost, Tick, Mishap
  <2>3. CASE Scan(c)
    <3>1. PICK twice \in SUBSET HotKeys :
            /\ mishaps' = mishaps \/ mishaps' = mishaps + 1
            /\ repeated' = repeated + Cardinality(twice)
            /\ todo' = [todo EXCEPT ![c] = [k \in Teams |->
                          IF k \in twice THEN 2 ELSE IF k \in HotKeys THEN 1 ELSE 0]]
      BY <2>3 DEF Scan, Mishap
    <3>2. /\ UNCHANGED <<halted, volatile, hour, ticked>> /\ stage' = [stage EXCEPT ![c] = "eval"]
      BY <2>3 DEF Scan
    <3>3. repeated' \in Nat
      BY <3>1, RepeatsCounted
    <3>4. todo' \in [Clients -> [Teams -> 0..2]]
      BY <3>1
    <3>5. mishaps' \in Nat
      BY <3>1
    <3> QED
      BY <3>1, <3>2, <3>3, <3>4, <3>5
  <2>4. CASE ScanFails(c)
    BY <2>4 DEF ScanFails, Mishap
  <2>5. ASSUME NEW k \in Teams, DecayKey(c, k) \/ DecayKeyFails(c, k) \/ DecayKeyReplyLost(c, k)
        PROVE  DecayTypes'
    <3>1. /\ UNCHANGED <<halted, volatile, hour, ticked, stage, repeated>>
          /\ stage[c] = "eval" /\ todo[c][k] > 0
          /\ todo' = [todo EXCEPT ![c][k] = @ - 1]
          /\ mishaps' = mishaps \/ mishaps' = mishaps + 1
      BY <2>5 DEF DecayKey, DecayKeyFails, DecayKeyReplyLost, AtKey, Mishap
    <3>2. todo' \in [Clients -> [Teams -> 0..2]]
      BY <3>1
    <3> QED
      BY <3>1, <3>2
  <2>6. CASE DecayUnlock(c)
    BY <2>6 DEF DecayUnlock
  <2>7. CASE DecayAbandoned(c)
    BY <2>7 DEF DecayAbandoned, Mishap
  <2> QED
    BY <1>4, <2>1, <2>2, <2>3, <2>4, <2>5, <2>6, <2>7 DEF DecayStep
<1>5. CASE LeaseExpires \/ UNCHANGED heatVars
  BY <1>5 DEF LeaseExpires, notDecay, requests, boards, decay, heatVars
<1> QED
  BY <1>1, <1>2, <1>3, <1>4, <1>5 DEF HeatNext

LEMMA LocksMatchKept ==
  ASSUME TypeOK, DecayTypes, LocksMatch, [HeatNext]_heatVars
  PROVE  LocksMatch'
<1> USE DEF LocksMatch, DecayTypes, TypeOK
<1>1. ASSUME UNCHANGED <<lock, stage>>
      PROVE  LocksMatch'
  BY <1>1
<1>2. ASSUME NEW q \in Requests, Increase(q) \/ Halt(q)
      PROVE  LocksMatch'
  BY <1>1, <1>2 DEF Increase, Halt, IncrTotal, IncrDaily, ExpireDaily, IncrWeekly, ExpireWeekly,
                    Step, lockVars, decay
<1>3. CASE (\E b \in Boards : BoardExpires(b)) \/ NewHour \/ LeaseExpires \/ UNCHANGED heatVars
  BY <1>1, <1>3 DEF BoardExpires, NewHour, LeaseExpires, Expire, lockVars, decay, heatVars
<1>4. ASSUME NEW c \in Clients, DecayStep(c)
      PROVE  LocksMatch'
  <2>1. CASE DecayLocked(c)
    BY <2>1, TokenAssumption DEF DecayLocked, TryLock, RandomTokens
  <2>2. CASE DecaySkipped(c) \/ DecayLockReplyLost(c)
    BY <1>1, <2>2 DEF DecaySkipped, DecayLockReplyLost, TryLockBusy, TryLockReplyLost, vars
  <2>3. CASE Scan(c) \/ ScanFails(c)
    <3>1. lock' = lock /\ stage[c] = "scan" /\ stage' = [stage EXCEPT ![c] = "eval"]
      BY <2>3 DEF Scan, ScanFails, lockVars
    <3> QED
      BY <3>1
  <2>4. ASSUME NEW k \in Teams, DecayKey(c, k) \/ DecayKeyFails(c, k) \/ DecayKeyReplyLost(c, k)
        PROVE  LocksMatch'
    BY <1>1, <2>4 DEF DecayKey, DecayKeyFails, DecayKeyReplyLost, AtKey, lockVars
  <2>5. CASE DecayUnlock(c) \/ DecayAbandoned(c)
    <3>1. lock' = [lock EXCEPT ![c] = NoToken] /\ stage' = [stage EXCEPT ![c] = "tick"]
      BY <2>5 DEF DecayUnlock, DecayAbandoned, Unlock, Abandon
    <3> QED
      BY <3>1
  <2> QED
    BY <1>4, <2>1, <2>2, <2>3, <2>4, <2>5 DEF DecayStep
<1> QED
  BY <1>2, <1>3, <1>4 DEF HeatNext

HeatIInv == TypeOK /\ HeatTypes /\ DecayTypes /\ LocksMatch

LEMMA HeatInvariant == HeatSpec => []HeatIInv
<1>1. HeatInit => HeatTypes /\ DecayTypes /\ LocksMatch
  <2> SUFFICES ASSUME HeatInit
               PROVE  DecayTypes /\ LocksMatch
    BY HeatStarts
  <2> QED
    BY HeatAssumption DEF HeatInit, Init, DecayTypes, LocksMatch
<1>2. /\ TypeOK /\ HeatTypes /\ DecayTypes /\ LocksMatch /\ [HeatNext]_heatVars
      => (HeatTypes /\ DecayTypes /\ LocksMatch)'
  BY HeatTypesKept, DecayTypesKept, LocksMatchKept
<1>3. HeatSpec => []TypeOK
  BY HeatImplementsLock, TypeCorrect, PTL
<1> QED
  BY <1>1, <1>2, <1>3, PTL DEF HeatSpec, HeatIInv

\* Types of the rankings; a decay worker has a lock exactly from TryLock to
\* Unlock, and keys to go through only in between (heat_decay.go).
THEOREM HeatTypesCorrect == HeatSpec => []HeatTypeOK
<1>1. HeatIInv => HeatTypeOK
  BY DEF HeatIInv, HeatTypes, DecayTypes, LocksMatch, HeatTypeOK
<1> QED
  BY <1>1, HeatInvariant, PTL

\* What the workers may still do to the scores of team k: those that have not
\* ticked this hour, those that scan or have k in their keys, those that have it
\* twice.
Unticked == {c \in Clients : ticked[c] < hour}
Keyed(k) == {c \in Clients : stage[c] = "scan" \/ todo[c][k] >= 1}
Twice(k) == {c \in Clients : todo[c][k] = 2}

Due(k) == Cardinality(Unticked) + Cardinality(Keyed(k)) + Cardinality(Twice(k))

\* The part of one worker.
Bit(b) == IF b THEN 1 ELSE 0
DueOf(c, k) == Bit(c \in Unticked) + Bit(c \in Keyed(k)) + Bit(c \in Twice(k))

\* Two sets of workers that differ at most in c.
LEMMA OneWorker ==
  ASSUME NEW c \in Clients, NEW S \in SUBSET Clients, NEW T \in SUBSET Clients,
         S \ {c} = T \ {c}
  PROVE  /\ Cardinality(S) \in Nat /\ Cardinality(T) \in Nat
         /\ Cardinality(T) + Bit(c \in S) = Cardinality(S) + Bit(c \in T)
<1>1. IsFiniteSet(S) /\ IsFiniteSet(T)
  BY HeatAssumption, FS_Subset
<1>2. Cardinality(S) \in Nat /\ Cardinality(T) \in Nat
  BY <1>1, FS_CardinalityType
<1>3. ASSUME NEW R \in SUBSET Clients, IsFiniteSet(R)
      PROVE  Cardinality(R) = Cardinality(R \ {c}) + Bit(c \in R)
  <2>1. CASE c \in R
    <3>1. Cardinality(R \ {c}) = Cardinality(R) - 1
      BY <1>3, <2>1, FS_RemoveElement
    <3>2. Cardinality(R) \in Nat
      BY <1>3, FS_CardinalityType
    <3> QED
      BY <2>1, <3>1, <3>2 DEF Bit
  <2>2. CASE c \notin R
    <3>1. R \ {c} = R /\ Cardinality(R) \in Nat
      BY <1>3, <2>2, FS_CardinalityType
    <3> QED
      BY <2>2, <3>1 DEF Bit
  <2> QED
    BY <2>1, <2>2
<1>4. Cardinality(S \ {c}) \in Nat
  BY <1>1, FS_RemoveElement, FS_CardinalityType, FS_Subset
<1>5. Bit(c \in S) \in {0, 1} /\ Bit(c \in T) \in {0, 1}
  BY DEF Bit
<1> QED
  BY <1>1, <1>2, <1>3, <1>4, <1>5

LEMMA DueType ==
  ASSUME NEW k \in Teams
  PROVE  /\ Due(k) \in Nat /\ Cardinality(Clients) \in Nat
         /\ Cardinality(Unticked) \in Nat /\ Cardinality(Unticked) <= Cardinality(Clients)
         /\ Cardinality(Keyed(k)) \in Nat /\ Cardinality(Twice(k)) \in Nat
<1>1. /\ Unticked \subseteq Clients /\ Keyed(k) \subseteq Clients /\ Twice(k) \subseteq Clients
      /\ IsFiniteSet(Clients)
  BY HeatAssumption DEF Unticked, Keyed, Twice
<1>2. /\ IsFiniteSet(Unticked) /\ IsFiniteSet(Keyed(k)) /\ IsFiniteSet(Twice(k))
      /\ Cardinality(Unticked) <= Cardinality(Clients)
  BY <1>1, FS_Subset
<1> QED
  BY <1>1, <1>2, FS_CardinalityType DEF Due

\* When only c takes a step, only its part changes.
LEMMA DueChanges ==
  ASSUME NEW c \in Clients, NEW k \in Teams, hour' = hour,
         \A d \in Clients \ {c} : ticked'[d] = ticked[d] /\ stage'[d] = stage[d] /\ todo'[d] = todo[d]
  PROVE  /\ Due(k) \in Nat /\ Due(k)' \in Nat /\ DueOf(c, k) \in Nat /\ DueOf(c, k)' \in Nat
         /\ Due(k)' + DueOf(c, k) = Due(k) + DueOf(c, k)'
<1>1. /\ Unticked \ {c} = Unticked' \ {c} /\ Keyed(k) \ {c} = Keyed(k)' \ {c}
      /\ Twice(k) \ {c} = Twice(k)' \ {c}
      /\ Unticked \in SUBSET Clients /\ Unticked' \in SUBSET Clients
      /\ Keyed(k) \in SUBSET Clients /\ Keyed(k)' \in SUBSET Clients
      /\ Twice(k) \in SUBSET Clients /\ Twice(k)' \in SUBSET Clients
  BY DEF Unticked, Keyed, Twice
<1>2. /\ Cardinality(Unticked) \in Nat /\ Cardinality(Unticked') \in Nat
      /\ Cardinality(Unticked') + Bit(c \in Unticked) = Cardinality(Unticked) + Bit(c \in Unticked')
  BY <1>1, OneWorker
<1>3. /\ Cardinality(Keyed(k)) \in Nat /\ Cardinality(Keyed(k)') \in Nat
      /\ Cardinality(Keyed(k)') + Bit(c \in Keyed(k)) = Cardinality(Keyed(k)) + Bit(c \in Keyed(k)')
  BY <1>1, OneWorker
<1>4. /\ Cardinality(Twice(k)) \in Nat /\ Cardinality(Twice(k)') \in Nat
      /\ Cardinality(Twice(k)') + Bit(c \in Twice(k)) = Cardinality(Twice(k)) + Bit(c \in Twice(k)')
  BY <1>1, OneWorker
<1>5. /\ Bit(c \in Unticked) \in Nat /\ Bit(c \in Unticked') \in Nat
      /\ Bit(c \in Keyed(k)) \in Nat /\ Bit(c \in Keyed(k)') \in Nat
      /\ Bit(c \in Twice(k)) \in Nat /\ Bit(c \in Twice(k)') \in Nat
  BY DEF Bit
<1>6. /\ Due(k)' = Cardinality(Unticked') + Cardinality(Keyed(k)') + Cardinality(Twice(k)')
      /\ DueOf(c, k)' = Bit(c \in Unticked') + Bit(c \in Keyed(k)') + Bit(c \in Twice(k)')
  BY DEF Due, DueOf
<1> QED
  BY <1>2, <1>3, <1>4, <1>5, <1>6 DEF Due, DueOf

\* Steps of the workers: a decay of k takes one from what is due, the others add
\* nothing, except for keys that SCAN repeats.
LEMMA DueSteps ==
  ASSUME HeatIInv, NEW c \in Clients, DecayStep(c), NEW k \in Teams
  PROVE  /\ hour' = hour /\ Due(k) \in Nat /\ Due(k)' \in Nat
         /\ \/ age' = age /\ Due(k)' + repeated <= Due(k) + repeated'
            \/ Decay(k) /\ Due(k)' + 1 + repeated <= Due(k) + repeated'
            \/ /\ \E m \in Teams \ {k} : Decay(m)
               /\ Due(k)' + repeated <= Due(k) + repeated'
<1> USE DEF HeatIInv, HeatTypes, DecayTypes
<1>1. /\ hour' = hour
      /\ \A d \in Clients \ {c} : ticked'[d] = ticked[d] /\ stage'[d] = stage[d] /\ todo'[d] = todo[d]
  <2>1. CASE DecayLocked(c) \/ DecaySkipped(c) \/ DecayLockReplyLost(c)
    BY <2>1 DEF DecayLocked, DecaySkipped, DecayLockReplyLost, Tick
  <2>2. CASE Scan(c) \/ ScanFails(c)
    <3>1. /\ UNCHANGED <<hour, ticked>> /\ stage' = [stage EXCEPT ![c] = "eval"]
          /\ \A d \in Clients \ {c} : todo'[d] = todo[d]
      BY <2>2 DEF Scan, ScanFails
    <3> QED
      BY <3>1
  <2>3. ASSUME NEW m \in Teams, DecayKey(c, m) \/ DecayKeyFails(c, m) \/ DecayKeyReplyLost(c, m)
        PROVE  /\ hour' = hour
               /\ \A d \in Clients \ {c} : ticked'[d] = ticked[d] /\ stage'[d] = stage[d] /\ todo'[d] = todo[d]
    BY <2>3 DEF DecayKey, DecayKeyFails, DecayKeyReplyLost, AtKey
  <2>4. CASE DecayUnlock(c) \/ DecayAbandoned(c)
    BY <2>4 DEF DecayUnlock, DecayAbandoned
  <2> QED
    BY <2>1, <2>2, <2>3, <2>4 DEF DecayStep
<1>2. /\ Due(k) \in Nat /\ Due(k)' \in Nat /\ DueOf(c, k) \in Nat /\ DueOf(c, k)' \in Nat
      /\ Due(k)' + DueOf(c, k) = Due(k) + DueOf(c, k)'
      /\ repeated \in Nat
  BY <1>1, DueChanges
<1>3. DueOf(c, k) = Bit(ticked[c] < hour) + (IF stage[c] = "scan" THEN 1 ELSE todo[c][k])
  <2>1. todo[c][k] \in 0..2 /\ (stage[c] # "eval" => todo[c][k] = 0)
    OBVIOUS
  <2> QED
    BY <2>1 DEF DueOf, Bit, Unticked, Keyed, Twice
<1>4. ASSUME todo'[c][k] \in 0..2, stage'[c] = "scan" => todo'[c][k] = 0
      PROVE  DueOf(c, k)' = Bit(ticked'[c] < hour') + (IF stage'[c] = "scan" THEN 1 ELSE todo'[c][k])
  BY <1>4 DEF DueOf, Bit, Unticked, Keyed, Twice
\* What is left to show of each action.
<1>5. ASSUME repeated' \in Nat, DueOf(c, k)' + repeated <= DueOf(c, k) + repeated'
      PROVE  Due(k)' + repeated <= Due(k) + repeated'
  BY <1>2, <1>5
<1>6. CASE DecayLocked(c) \/ DecaySkipped(c) \/ DecayLockReplyLost(c)
  <2>1. /\ stage[c] = "tick" /\ ticked[c] < hour /\ ticked'[c] = hour
        /\ stage'[c] \in {"tick", "scan"} /\ UNCHANGED <<age, todo, repeated>>
    BY <1>6 DEF DecayLocked, DecaySkipped, DecayLockReplyLost, Tick, notDecay
  <2>2. todo[c][k] = 0 /\ hour \in Nat
    BY <2>1
  <2>3. DueOf(c, k) = 1 /\ DueOf(c, k)' \in {0, 1}
    BY <1>1, <1>3, <1>4, <2>1, <2>2 DEF Bit
  <2> QED
    BY <1>1, <1>2, <1>5, <2>1, <2>3
<1>7. CASE Scan(c)
  <2>1. PICK twice \in SUBSET HotKeys :
          /\ repeated' = repeated + Cardinality(twice)
          /\ todo' = [todo EXCEPT ![c] = [m \in Teams |->
                        IF m \in twice THEN 2 ELSE IF m \in HotKeys THEN 1 ELSE 0]]
    BY <1>7 DEF Scan
  <2>2. /\ stage[c] = "scan" /\ stage'[c] = "eval" /\ UNCHANGED <<age, ticked>>
    BY <1>7 DEF Scan, notDecay
  <2>3. repeated' \in Nat /\ repeated' >= repeated + (IF k \in twice THEN 1 ELSE 0)
    BY <1>2, <2>1, RepeatsCounted
  <2>4. todo'[c][k] \in 0..2 /\ todo'[c][k] <= 1 + (IF k \in twice THEN 1 ELSE 0)
    BY <2>1
  <2>5. Bit(ticked'[c] < hour') = Bit(ticked[c] < hour) /\ Bit(ticked[c] < hour) \in Nat
    BY <1>1, <2>2 DEF Bit
  <2>6. /\ DueOf(c, k) = Bit(ticked[c] < hour) + 1
        /\ DueOf(c, k)' = Bit(ticked[c] < hour) + todo'[c][k]
    BY <1>3, <1>4, <2>2, <2>4, <2>5
  <2>7. DueOf(c, k)' + repeated <= DueOf(c, k) + repeated'
    BY <1>2, <2>3, <2>4, <2>5, <2>6
  <2> QED
    BY <1>1, <1>2, <1>5, <2>2, <2>3, <2>7
<1>8. CASE ScanFails(c)
  <2>1. /\ stage[c] = "scan" /\ stage'[c] = "eval" /\ UNCHANGED <<age, ticked, todo, repeated>>
    BY <1>8 DEF ScanFails, notDecay
  <2>2. todo[c][k] = 0 /\ Bit(ticked[c] < hour) \in Nat
    BY <2>1 DEF Bit
  <2>3. DueOf(c, k) = Bit(ticked[c] < hour) + 1 /\ DueOf(c, k)' = Bit(ticked[c] < hour)
    BY <1>1, <1>3, <1>4, <2>1, <2>2
  <2> QED
    BY <1>1, <1>2, <1>5, <2>1, <2>2, <2>3
<1>9. ASSUME NEW m \in Teams, DecayKey(c, m) \/ DecayKeyFails(c, m) \/ DecayKeyReplyLost(c, m)
      PROVE  \/ age' = age /\ Due(k)' + repeated <= Due(k) + repeated'
             \/ Decay(k) /\ Due(k)' + 1 + repeated <= Due(k) + repeated'
             \/ /\ \E n \in Teams \ {k} : Decay(n)
                /\ Due(k)' + repeated <= Due(k) + repeated'
  <2>1. /\ stage[c] = "eval" /\ todo[c][m] > 0 /\ UNCHANGED <<ticked, stage, repeated>>
        /\ todo' = [todo EXCEPT ![c][m] = @ - 1]
        /\ age' = age \/ Decay(m)
    BY <1>9 DEF DecayKey, DecayKeyFails, DecayKeyReplyLost, AtKey
  <2>2. Bit(ticked'[c] < hour') = Bit(ticked[c] < hour) /\ Bit(ticked[c] < hour) \in Nat
    BY <1>1, <2>1 DEF Bit
  <2>3. /\ todo[c][k] \in 0..2 /\ todo[c][m] \in 0..2
        /\ todo'[c][k] = (IF m = k THEN todo[c][k] - 1 ELSE todo[c][k])
    BY <2>1
  <2>4. todo'[c][k] \in 0..2
    BY <2>1, <2>3
  <2>5. /\ DueOf(c, k) = Bit(ticked[c] < hour) + todo[c][k]
        /\ DueOf(c, k)' = Bit(ticked[c] < hour) + todo'[c][k]
    BY <1>3, <1>4, <2>1, <2>2, <2>4
  <2>6. CASE m = k
    <3>1. DueOf(c, k)' + 1 = DueOf(c, k)
      BY <2>2, <2>3, <2>5, <2>6
    <3>2. Due(k)' + 1 + repeated <= Due(k) + repeated'
      BY <1>2, <2>1, <3>1
    <3>3. Due(k)' + repeated <= Due(k) + repeated'
      BY <1>2, <2>1, <3>2
    <3> QED
      BY <2>1, <2>6, <3>2, <3>3
  <2>7. CASE m # k
    <3>1. Due(k)' + repeated <= Due(k) + repeated'
      BY <1>2, <2>1, <2>3, <2>5, <2>7
    <3> QED
      BY <2>1, <2>7, <3>1
  <2> QED
    BY <2>6, <2>7
<1>10. CASE DecayUnlock(c) \/ DecayAbandoned(c)
  <2>1. /\ stage'[c] = "tick" /\ UNCHANGED <<age, ticked, repeated>>
        /\ todo'[c][k] = 0
    BY <1>10 DEF DecayUnlock, DecayAbandoned, notDecay
  <2>2. Bit(ticked'[c] < hour') = Bit(ticked[c] < hour) /\ Bit(ticked[c] < hour) \in Nat
    BY <1>1, <2>1 DEF Bit
  <2>3. DueOf(c, k)' = Bit(ticked[c] < hour)
    BY <1>4, <2>1, <2>2
  <2>4. DueOf(c, k)' <= DueOf(c, k)
    BY <1>3, <2>2, <2>3
  <2> QED
    BY <1>1, <1>2, <1>5, <2>1, <2>4
<1> QED
  BY <1>1, <1>2, <1>6, <1>7, <1>8, <1>9, <1>10 DEF DecayStep

\* The scores of team k leave room for what is due.
Budget == hour * Cardinality(Clients) + repeated

DecaysIInv ==
  \A k \in Teams :
    /\ Due(k) <= Budget
    /\ \A q \in Requests : teamOf[q] = k /\ age[q] # NotCounted => age[q] + Due(k) <= Budget

LEMMA DecaysKept ==
  ASSUME HeatIInv, HeatIInv', DecaysIInv, [HeatNext]_heatVars
  PROVE  DecaysIInv'
<1> USE DEF HeatIInv, HeatTypes, DecayTypes
<1>0. /\ Budget \in Nat /\ Budget' \in Nat /\ repeated \in Nat /\ repeated' \in Nat
      /\ Cardinality(Clients) \in Nat
  <2>1. hour \in Nat /\ hour' \in Nat /\ repeated \in Nat /\ repeated' \in Nat
    BY HeatAssumption
  <2>2. Cardinality(Clients) \in Nat
    BY HeatAssumption, FS_CardinalityType
  <2>3. hour * Cardinality(Clients) \in Nat /\ hour' * Cardinality(Clients) \in Nat
    BY <2>1, <2>2
  <2> QED
    BY <2>1, <2>2, <2>3 DEF Budget
<1>1. ASSUME NEW c \in Clients, DecayStep(c)
      PROVE  DecaysIInv'
  <2> SUFFICES ASSUME NEW k \in Teams
               PROVE  /\ Due(k)' <= Budget'
                      /\ \A q \in Requests : teamOf'[q] = k /\ age'[q] # NotCounted
                                             => age'[q] + Due(k)' <= Budget'
    BY DEF DecaysIInv
  <2>1. hour' = hour /\ Due(k) \in Nat /\ Due(k)' \in Nat /\ teamOf' = teamOf
    BY <1>1, DueSteps, DecayStepApart DEF requests
  <2>2. Budget' + repeated = Budget + repeated'
    BY <1>0, <2>1 DEF Budget
  <2>3. /\ Due(k) <= Budget
        /\ \A q \in Requests : teamOf[q] = k /\ age[q] # NotCounted
             => age[q] \in Nat /\ age[q] + Due(k) <= Budget
    BY DEF DecaysIInv
  <2>4. ASSUME \A q \in Requests : teamOf[q] = k => age'[q] = age[q],
               Due(k)' + repeated <= Due(k) + repeated'
        PROVE  /\ Due(k)' <= Budget'
               /\ \A q \in Requests : teamOf'[q] = k /\ age'[q] # NotCounted
                                      => age'[q] + Due(k)' <= Budget'
    BY <1>0, <2>1, <2>2, <2>3, <2>4
  <2>5. CASE Decay(k) /\ Due(k)' + 1 + repeated <= Due(k) + repeated'
    <3>1. Due(k)' <= Budget'
      BY <1>0, <2>1, <2>2, <2>3, <2>5
    <3>2. ASSUME NEW q \in Requests, teamOf[q] = k, age'[q] # NotCounted
          PROVE  age'[q] + Due(k)' <= Budget'
      <4>1. age[q] # NotCounted /\ age'[q] = age[q] + 1
        BY <2>5, <3>2 DEF Decay
      <4>2. age[q] \in Nat /\ age[q] + Due(k) <= Budget
        BY <2>3, <3>2, <4>1
      <4> QED
        BY <1>0, <2>1, <2>2, <2>5, <4>1, <4>2
    <3> QED
      BY <2>1, <3>1, <3>2
  <2>6. ASSUME NEW m \in Teams \ {k}, Decay(m)
        PROVE  \A q \in Requests : teamOf[q] = k => age'[q] = age[q]
    BY <2>6 DEF Decay
  <2> QED
    BY <1>1, <2>4, <2>5, <2>6, DueSteps
<1>2. ASSUME UNCHANGED <<teamOf, hour, ticked, stage, todo, repeated>>,
             \A q \in Requests : age'[q] = age[q] \/ age'[q] = 0
      PROVE  DecaysIInv'
  <2> SUFFICES ASSUME NEW k \in Teams
               PROVE  /\ Due(k)' <= Budget'
                      /\ \A q \in Requests : teamOf'[q] = k /\ age'[q] # NotCounted
                                             => age'[q] + Due(k)' <= Budget'
    BY DEF DecaysIInv
  <2>1. Due(k)' = Due(k) /\ Budget' = Budget /\ Due(k) \in Nat
    BY <1>2, DueType DEF Due, Unticked, Keyed, Twice, Budget
  <2> QED
    BY <1>2, <2>1 DEF DecaysIInv
<1>3. ASSUME NEW q \in Requests, Increase(q) \/ Halt(q)
      PROVE  DecaysIInv'
  BY <1>2, <1>3 DEF Increase, Halt, IncrTotal, IncrDaily, ExpireDaily, IncrWeekly, ExpireWeekly,
                    Step, IncrBoard, ExpireBoard, decay
<1>4. CASE NewHour
  <2> SUFFICES ASSUME NEW k \in Teams
               PROVE  /\ Due(k)' <= Budget'
                      /\ \A q \in Requests : teamOf'[q] = k /\ age'[q] # NotCounted
                                             => age'[q] + Due(k)' <= Budget'
    BY DEF DecaysIInv
  <2>1. /\ hour' = hour + 1 /\ hour \in Nat
        /\ UNCHANGED <<teamOf, age, ticked, stage, todo, repeated>>
    BY <1>4 DEF NewHour, notDecay, requests
  <2>2. Budget' = Budget + Cardinality(Clients)
    <3>1. (hour + 1) * Cardinality(Clients) = hour * Cardinality(Clients) + Cardinality(Clients)
      BY <1>0, <2>1
    <3>2. hour * Cardinality(Clients) \in Nat
      BY <1>0, <2>1
    <3> QED
      BY <1>0, <2>1, <3>1, <3>2 DEF Budget
  <2>3. /\ Due(k) \in Nat /\ Due(k)' \in Nat /\ Due(k)' <= Due(k) + Cardinality(Clients)
    <3>1. Unticked' \subseteq Clients /\ IsFiniteSet(Clients)
      BY HeatAssumption DEF Unticked
    <3>2. Cardinality(Unticked') \in Nat /\ Cardinality(Unticked') <= Cardinality(Clients)
      BY <3>1, FS_Subset, FS_CardinalityType
    <3>3. Keyed(k)' = Keyed(k) /\ Twice(k)' = Twice(k)
      BY <2>1 DEF Keyed, Twice
    <3>4. Due(k)' = Cardinality(Unticked') + Cardinality(Keyed(k)) + Cardinality(Twice(k))
      BY <3>3 DEF Due
    <3> QED
      BY <3>2, <3>4, DueType DEF Due
  <2> QED
    BY <1>0, <2>1, <2>2, <2>3 DEF DecaysIInv
<1>5. CASE (\E b \in Boards : BoardExpires(b)) \/ LeaseExpires \/ UNCHANGED heatVars
  BY <1>2, <1>5 DEF BoardExpires, LeaseExpires, notDecay, requests, decay, heatVars
<1> QED
  BY <1>1, <1>3, <1>4, <1>5 DEF HeatNext

\* An hour multiplies a score at most once per instance, and once more for every
\* key that SCAN repeated, whatever becomes of locks and replies (heat_decay.go).
THEOREM DecaysAreBounded == HeatSpec => []DecaysBounded
<1>1. HeatInit => DecaysIInv
  <2> SUFFICES ASSUME HeatInit, NEW k \in Teams
               PROVE  /\ Due(k) <= Budget
                      /\ \A q \in Requests : age[q] = NotCounted
    BY DEF DecaysIInv
  <2>1. Unticked = {} /\ Keyed(k) = {} /\ Twice(k) = {}
    BY DEF HeatInit, Unticked, Keyed, Twice
  <2>2. Due(k) = 0
    BY <2>1, FS_EmptySet DEF Due
  <2>3. Cardinality(Clients) \in Nat /\ hour = 0 /\ repeated = 0
    BY HeatAssumption, FS_CardinalityType DEF HeatInit
  <2>4. Budget = 0
    BY <2>3 DEF Budget
  <2> QED
    BY <2>2, <2>4 DEF HeatInit
<1>2. HeatIInv /\ HeatIInv' /\ DecaysIInv /\ [HeatNext]_heatVars => DecaysIInv'
  BY DecaysKept
<1>3. HeatIInv /\ DecaysIInv => DecaysBounded
  <2> SUFFICES ASSUME HeatIInv, DecaysIInv, NEW q \in Requests, age[q] # NotCounted
               PROVE  age[q] <= Budget
    BY DEF DecaysBounded, Budget
  <2>1. teamOf[q] \in Teams /\ age[q] \in Nat
    BY DEF HeatIInv, HeatTypes
  <2>2. age[q] + Due(teamOf[q]) <= Budget
    BY <2>1 DEF DecaysIInv
  <2>3. Due(teamOf[q]) \in Nat
    BY <2>1, DueType
  <2>4. Budget \in Int
    BY HeatAssumption, FS_CardinalityType DEF Budget, HeatIInv, DecayTypes
  <2> QED
    BY <2>1, <2>2, <2>3, <2>4
<1> QED
  BY <1>1, <1>2, <1>3, HeatInvariant, PTL DEF HeatSpec
=============================================================================
