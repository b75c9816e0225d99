-------------------------- MODULE TaskDetail_proofs --------------------------
(***************************************************************************)
(* Proofs about the task detail cache, for any readers, writers and tokens, *)
(* and whatever the rebuild lock does.                                      *)
(***************************************************************************)
EXTENDS TaskDetail, TLAPS

LEMMA TypesKept ==
  ASSUME TypeOK, [Next]_vars
  PROVE  TypeOK'
<1> USE EntryAssumption DEF TypeOK, Lk!TypeOK, ReaderStages, WriterStages, Versions
<1> USE DEF Goto, history, lockVars, Lk!vars
<1>1. ASSUME NEW r \in Readers, GetHit(r) \/ GetMiss(r) \/ SecondHit(r) \/ SecondMiss(r)
      PROVE  TypeOK'
  BY <1>1 DEF GetHit, GetMiss, SecondHit, SecondMiss, Hits, Gets
<1>2. ASSUME NEW r \in Readers, TryLock(r) \/ TryLockBusy(r)
      PROVE  TypeOK'
  BY <1>2 DEF TryLock, TryLockBusy, Lk!TryLock, Lk!TryLockBusy, Lk!SetNX, Lk!RandomTokens
<1>3. ASSUME NEW r \in Readers, Query(r) \/ Unlock(r)
      PROVE  TypeOK'
  BY <1>3 DEF Query, Unlock, Gets, Lk!Unlock, Lk!UnlockWithToken
<1>4. ASSUME NEW r \in Readers, SetEx(r)
      PROVE  TypeOK'
  <2>1. tainted' => cache' # NoEntry
    BY <1>4 DEF SetEx, Fills
  <2> QED
    BY <1>4, <2>1 DEF SetEx, Fills
<1>5. ASSUME NEW r \in Readers, Answered(r) \/ TryLockReplyLost(r) \/ Fails(r)
      PROVE  TypeOK'
  BY <1>5 DEF Answered, TryLockReplyLost, Fails, Ends, Gets, Fault, Lk!TryLockReplyLost,
              Lk!Unlock, Lk!Abandon, Lk!UnlockWithToken, Lk!SetNX, Lk!RandomTokens
<1>6. ASSUME NEW w \in Writers, Update(w) \/ Del(w)
      PROVE  TypeOK'
  BY <1>6 DEF Update, Del, Fillers
<1>7. ASSUME NEW w \in Writers, DelFails(w)
      PROVE  TypeOK'
  <2>1. tainted' => cache' # NoEntry
    BY <1>7, Zenon DEF DelFails
  <2> QED
    BY <1>7, <2>1 DEF DelFails, Fault, Fillers
<1>8. CASE CreateTask \/ CacheExpires \/ LockExpires \/ UNCHANGED vars
  BY <1>8 DEF CreateTask, CacheExpires, LockExpires, Lk!Expire, vars
<1> QED
  BY <1>1, <1>2, <1>3, <1>4, <1>5, <1>6, <1>7, <1>8 DEF Next, ReadStep

\* The detail cache keeps its types: a reader has a version once it has one, and
\* the rebuild lock only while it rebuilds (task.go GetTask).
THEOREM DetailTypeCorrect == Spec => []TypeOK
<1>1. Init => TypeOK
  BY EntryAssumption
     DEF Init, Lk!Init, TypeOK, Lk!TypeOK, ReaderStages, WriterStages, Versions
<1> QED
  BY <1>1, TypesKept, PTL DEF Spec

-----------------------------------------------------------------------------
\* What the invariant below needs of TypeOK.
DetailTypes ==
  /\ at \in [Readers \cup Writers -> ReaderStages \cup WriterStages]
  /\ row \in Nat /\ cache \in Nat \cup {NoEntry} /\ settled \in Nat
  /\ task \in [Readers -> Nat \cup {NoEntry}] /\ floor \in [Readers -> Nat]

\* Nothing is newer than the row, and whoever holds an older version, be it a
\* reader before its SETEX or the entry, is told apart by a DEL: one that is
\* still to come, or one that came in between.
DetailIInv ==
  /\ DetailTypes
  /\ settled <= row
  /\ cache # NoEntry => cache <= row
  /\ \A r \in Readers :
       /\ floor[r] <= settled
       /\ task[r] # NoEntry => task[r] <= row
       /\ at[r] = "setex" =>
            /\ task[r] # NoEntry
            /\ task[r] > 0 /\ task[r] < row =>
                 r \in overtaken \/ \E w \in Writers : at[w] = "del"
            /\ task[r] > 0 /\ task[r] < settled => r \in overtaken
       /\ at[r] \in {"unlock", "done"} =>
            /\ task[r] # NoEntry
            /\ task[r] > 0 /\ task[r] < floor[r] => r \in overtaken
  /\ cache # NoEntry /\ cache > 0 /\ cache < settled => tainted
  /\ StaleOnlyByOverlap

\* A reader's step that touches neither row nor entry.
LEMMA ReaderApart ==
  ASSUME DetailIInv, DetailTypes', NEW r \in Readers,
         UNCHANGED <<row, cache, settled, tainted>>,
         \A p \in (Readers \cup Writers) \ {r} : at'[p] = at[p],
         at'[r] \in ReaderStages,
         \A q \in Readers \ {r} :
           task'[q] = task[q] /\ floor'[q] = floor[q] /\ (q \in overtaken => q \in overtaken'),
         floor'[r] <= settled,
         task'[r] # NoEntry => task'[r] <= row,
         at'[r] = "setex" => task'[r] = row,
         at'[r] \in {"unlock", "done"} =>
           task'[r] # NoEntry
             /\ (task'[r] > 0 /\ task'[r] < floor'[r] => r \in overtaken')
  PROVE  DetailIInv'
<1>1. \A w \in Writers : at'[w] = at[w]
  BY EntryAssumption
<1>2. StaleOnlyByOverlap'
  BY <1>1 DEF DetailIInv, StaleOnlyByOverlap
<1>3. row \in Nat /\ settled \in Nat /\ settled <= row
  BY DEF DetailIInv, DetailTypes
<1>4. ASSUME NEW q \in Readers, at'[q] = "setex", task'[q] > 0
      PROVE  /\ task'[q] < row' => q \in overtaken' \/ \E w \in Writers : at'[w] = "del"
             /\ task'[q] < settled' => q \in overtaken'
  <2>1. CASE q = r
    BY <1>3, <1>4, <2>1
  <2>2. CASE q # r
    BY <1>1, <1>4, <2>2 DEF DetailIInv
  <2> QED
    BY <2>1, <2>2
<1>5. ASSUME NEW q \in Readers
      PROVE  /\ floor'[q] <= settled'
             /\ task'[q] # NoEntry => task'[q] <= row'
             /\ at'[q] = "setex" => task'[q] # NoEntry
             /\ at'[q] \in {"unlock", "done"} =>
                  /\ task'[q] # NoEntry
                  /\ task'[q] > 0 /\ task'[q] < floor'[q] => q \in overtaken'
  <2>1. CASE q = r
    BY <1>3, <2>1, EntryAssumption
  <2>2. CASE q # r
    BY <2>2 DEF DetailIInv
  <2> QED
    BY <2>1, <2>2
<1> QED
  BY <1>2, <1>4, <1>5 DEF DetailIInv

LEMMA DetailStepKept ==
  ASSUME DetailIInv, DetailTypes', Next
  PROVE  DetailIInv'
<1> USE DEF DetailTypes
<1>1. ASSUME NEW r \in Readers, GetHit(r) \/ SecondHit(r)
      PROVE  DetailIInv'
  <2>1. /\ UNCHANGED <<row, cache, settled, tainted>>
        /\ task' = [task EXCEPT ![r] = cache] /\ at' = [at EXCEPT ![r] = "done"]
        /\ cache # NoEntry /\ floor' \in {floor, [floor EXCEPT ![r] = settled]}
        /\ overtaken' = IF tainted THEN overtaken \cup {r} ELSE overtaken
    BY <1>1 DEF GetHit, SecondHit, Hits, Gets, Goto
  <2>2. floor'[r] <= settled
    BY <2>1 DEF DetailIInv
  <2>3. task'[r] > 0 /\ task'[r] < floor'[r] => tainted
    BY <2>1, <2>2 DEF DetailIInv
  <2>4. tainted => r \in overtaken'
    BY <2>1
  <2>5. \A q \in Readers : q \in overtaken => q \in overtaken'
    BY <2>1
  <2> QED
    BY <2>1, <2>2, <2>3, <2>4, <2>5, ReaderApart DEF DetailIInv, ReaderStages
<1>2. ASSUME NEW r \in Readers,
             GetMiss(r) \/ TryLock(r) \/ TryLockBusy(r) \/ SecondMiss(r)
      PROVE  DetailIInv'
  <2>1. /\ UNCHANGED <<row, cache, settled, tainted, task, overtaken>>
        /\ \E to \in {"tryLock", "query", "sleep"} : at' = [at EXCEPT ![r] = to]
        /\ floor' \in {floor, [floor EXCEPT ![r] = settled]}
    BY <1>2 DEF GetMiss, TryLock, TryLockBusy, SecondMiss, Goto, history
  <2> QED
    BY <2>1, ReaderApart DEF DetailIInv, ReaderStages
<1>3. ASSUME NEW r \in Readers, Query(r) \/ Unlock(r)
      PROVE  DetailIInv'
  BY <1>3, ReaderApart DEF Query, Unlock, Gets, Goto, history, DetailIInv, ReaderStages
<1>4. ASSUME NEW r \in Readers, Answered(r) \/ TryLockReplyLost(r) \/ Fails(r)
      PROVE  DetailIInv'
  <2>1. /\ UNCHANGED <<row, cache, settled, tainted>>
        /\ task' = [task EXCEPT ![r] = NoEntry] /\ at' = [at EXCEPT ![r] = "idle"]
        /\ floor' = [floor EXCEPT ![r] = 0] /\ overtaken' = overtaken \ {r}
    BY <1>4 DEF Answered, TryLockReplyLost, Fails, Ends, Gets, Goto
  <2> QED
    BY <2>1, ReaderApart DEF DetailIInv, ReaderStages
<1>5. ASSUME NEW r \in Readers, SetEx(r)
      PROVE  DetailIInv'
  <2>1. /\ UNCHANGED <<row, task, settled, floor, overtaken>>
        /\ at[r] = "setex" /\ cache' = task[r]
        /\ \E to \in {"done", "unlock"} : at' = [at EXCEPT ![r] = to]
    BY <1>5 DEF SetEx, Fills, Goto
  <2>2. r \in overtaken => tainted'
    BY <1>5, Zenon DEF SetEx, Fills
  <2>3. \A w \in Writers : at'[w] = at[w]
    BY <2>1, EntryAssumption
  <2>4. StaleOnlyByOverlap'
    BY <2>1, <2>2, <2>3 DEF DetailIInv, StaleOnlyByOverlap
  <2>5. cache' # NoEntry /\ cache' > 0 /\ cache' < settled' => tainted'
    BY <2>1, <2>2 DEF DetailIInv
  <2>6. \A q \in Readers :
          /\ at'[q] = "setex" => at[q] = "setex"
          /\ at'[q] \in {"unlock", "done"} =>
               /\ task[q] # NoEntry
               /\ task[q] > 0 /\ task[q] < floor[q] => q \in overtaken
    BY <2>1 DEF DetailIInv
  <2> QED
    BY <2>1, <2>3, <2>4, <2>5, <2>6 DEF DetailIInv
<1>6. CASE CreateTask
  BY <1>6 DEF CreateTask, DetailIInv, StaleOnlyByOverlap
<1>7. ASSUME NEW w \in Writers, Update(w)
      PROVE  DetailIInv'
  <2>1. /\ UNCHANGED <<cache, task, settled, floor, overtaken, tainted>>
        /\ row' = row + 1 /\ at'[w] = "del"
        /\ \A r \in Readers : at'[r] = at[r]
    BY <1>7, EntryAssumption DEF Update, Goto, history
  <2> QED
    BY <2>1 DEF DetailIInv, StaleOnlyByOverlap
<1>8. ASSUME NEW w \in Writers, Del(w)
      PROVE  DetailIInv'
  <2>1. /\ UNCHANGED <<row, task, floor>> /\ cache' = NoEntry
        /\ settled' \in {settled, row} /\ overtaken' = overtaken \cup Fillers
        /\ \A r \in Readers : at'[r] = at[r]
    BY <1>8, EntryAssumption DEF Del, Goto
  <2> QED
    BY <2>1 DEF DetailIInv, StaleOnlyByOverlap, Fillers
<1>9. ASSUME NEW w \in Writers, DelFails(w)
      PROVE  DetailIInv'
  <2>1. /\ UNCHANGED <<row, cache, task, settled, floor>>
        /\ overtaken' = overtaken \cup Fillers
        /\ \A r \in Readers : at'[r] = at[r]
    BY <1>9, EntryAssumption DEF DelFails, Goto
  <2>2. cache' # NoEntry => tainted'
    BY <1>9, <2>1, Zenon DEF DelFails
  <2> QED
    BY <2>1, <2>2 DEF DetailIInv, StaleOnlyByOverlap, Fillers
<1>10. CASE CacheExpires \/ LockExpires
  BY <1>10 DEF CacheExpires, LockExpires, history, DetailIInv, StaleOnlyByOverlap
<1> QED
  BY <1>1, <1>2, <1>3, <1>4, <1>5, <1>6, <1>7, <1>8, <1>9, <1>10 DEF Next, ReadStep

LEMMA DetailInductive == Spec => []DetailIInv
<1>1. Init => DetailIInv
  BY EntryAssumption
     DEF Init, DetailIInv, DetailTypes, StaleOnlyByOverlap, ReaderStages, WriterStages
<1>2. DetailIInv /\ TypeOK' /\ [Next]_vars => DetailIInv'
  <2> SUFFICES ASSUME DetailIInv, TypeOK', [Next]_vars
               PROVE  DetailIInv'
    OBVIOUS
  <2>1. DetailTypes'
    BY EntryAssumption DEF TypeOK, DetailTypes, Versions
  <2>2. CASE UNCHANGED vars
    BY <2>1, <2>2 DEF DetailIInv, StaleOnlyByOverlap, vars, history
  <2> QED
    BY <2>1, <2>2, DetailStepKept
<1> QED
  BY <1>1, <1>2, DetailTypeCorrect, PTL DEF Spec

\* An old entry has an update before its DEL, outlived a DEL that failed, or was
\* written across one (task.go getTaskFromDBAndCache, deleteTaskDetailCache).
THEOREM StaleExplained == Spec => []StaleOnlyByOverlap
<1>1. DetailIInv => StaleOnlyByOverlap
  BY DEF DetailIInv
<1> QED
  BY <1>1, DetailInductive, PTL

\* An answer older than what finished updates had written comes from such an
\* entry or was overtaken itself (task.go GetTask).
THEOREM AnswersAreSettled == Spec => []AnswersSettled
<1>1. DetailIInv => AnswersSettled
  BY DEF DetailIInv, AnswersSettled
<1> QED
  BY <1>1, DetailInductive, PTL
=============================================================================
