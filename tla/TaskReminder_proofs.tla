------------------------- MODULE TaskReminder_proofs -------------------------
(***************************************************************************)
(* Proofs about the task reminders, for any tasks, scanners and bounds: one *)
(* scanner within the lease, no reminder forgotten, one notification for    *)
(* each setting of a reminder while nothing fails, and the lease of DistLock *)
(* implemented by the scanners.                                             *)
(***************************************************************************)
EXTENDS TaskReminder, FiniteSetTheorems, TLAPS

-----------------------------------------------------------------------------
(* Batches.                                                                 *)

\* A batch names each task once.
OneEach(b) == \A i, j \in DOMAIN b : i < j => b[i] # b[j]

LEMMA DueBatch ==
  ASSUME NEW time, NEW b \in DueInOrder(time)
  PROVE  /\ b \in Seq(Tasks) /\ OneEach(b)
         /\ b = <<>> <=> Due(time) = {}
         /\ ToSet(b) \subseteq Due(time)
<1>1. IsFiniteSet(Due(time)) /\ Due(time) \subseteq Tasks
  BY TasksAssumption, FS_Subset DEF Due
<1>2. /\ Cardinality(Due(time)) \in Nat
      /\ Cardinality(Due(time)) = 0 <=> Due(time) = {}
  BY <1>1, FS_CardinalityType, FS_EmptySet
<1> DEFINE k == Cardinality(Due(time))
<1>3. /\ b \in [1..k -> Due(time)] /\ k \in Nat
      /\ \A i, j \in DOMAIN b : i < j => b[i] # b[j]
  BY <1>2 DEF DueInOrder
<1> HIDE DEF k
<1>4. b \in Seq(Tasks) /\ Len(b) = k
  BY <1>1, <1>3
<1>5. b = <<>> <=> k = 0
  BY <1>3, <1>4
<1> QED
  BY <1>2, <1>3, <1>4, <1>5 DEF OneEach, ToSet, k

LEMMA BatchTail ==
  ASSUME NEW b \in Seq(Tasks), b # <<>>
  PROVE  /\ Head(b) \in Tasks /\ Head(b) \in ToSet(b)
         /\ Tail(b) \in Seq(Tasks)
         /\ Tail(b) = <<>> <=> Len(b) = 1
         /\ ToSet(Tail(b)) \subseteq ToSet(b)
         /\ OneEach(b) => OneEach(Tail(b)) /\ Head(b) \notin ToSet(Tail(b))
<1>1. /\ Head(b) = b[1] /\ 1 \in DOMAIN b /\ Len(b) \in Nat /\ DOMAIN b = 1..Len(b)
      /\ \A i \in DOMAIN b : b[i] \in Tasks
  OBVIOUS
<1>2. /\ Tail(b) \in Seq(Tasks) /\ Len(Tail(b)) = Len(b) - 1
      /\ DOMAIN Tail(b) = 1..(Len(b) - 1)
      /\ \A i \in 1..(Len(b) - 1) : Tail(b)[i] = b[i + 1]
  OBVIOUS
<1> DEFINE c == Tail(b)
           k == Len(b)
<1>3. /\ c \in Seq(Tasks) /\ Len(c) = k - 1
      /\ DOMAIN c = 1..(k - 1) /\ DOMAIN b = 1..k /\ k \in Nat
      /\ \A i \in 1..(k - 1) : c[i] = b[i + 1]
  BY <1>1, <1>2
<1> HIDE DEF c, k
<1>4. c = <<>> <=> k = 1
  BY <1>3
<1>5. ToSet(c) \subseteq ToSet(b)
  BY <1>3 DEF ToSet
<1>6. ASSUME OneEach(b)
      PROVE  OneEach(c) /\ b[1] \notin ToSet(c)
  <2>1. ASSUME NEW i \in DOMAIN c
        PROVE  c[i] = b[i + 1] /\ i + 1 \in DOMAIN b /\ c[i] # b[1]
    BY <1>3, <1>6, <2>1 DEF OneEach
  <2>2. ASSUME NEW i \in DOMAIN c, NEW j \in DOMAIN c, i < j
        PROVE  c[i] # c[j]
    <3>1. i + 1 < j + 1
      BY <1>3, <2>2
    <3> QED
      BY <1>6, <2>1, <3>1 DEF OneEach
  <2> QED
    BY <2>1, <2>2 DEF OneEach, ToSet
<1> QED
  BY <1>1, <1>3, <1>4, <1>5, <1>6 DEF ToSet, c, k

-----------------------------------------------------------------------------
(* Types.                                                                   *)

LEMMA CountedType ==
  ASSUME NEW f \in [Tasks -> Nat], NEW t \in Tasks
  PROVE  Inc(f, t) \in [Tasks -> Nat]
BY DEF Inc

LEMMA FlagType ==
  ASSUME NEW f \in [Tasks -> BOOLEAN], NEW t \in Tasks, NEW v \in BOOLEAN
  PROVE  [f EXCEPT ![t] = v] \in [Tasks -> BOOLEAN]
OBVIOUS

LEMMA UserKeepsTypes ==
  ASSUME TypeOK, NEW t \in Tasks, UserStep(t)
  PROVE  TypeOK'
<1>1. UNCHANGED <<lockVars, now, scan>>
  BY DEF UserStep, EditTask, SetReminder, ZAdd, SetFails, CancelReminder
<1>2. Lk!TypeOK' /\ (now \in 0..MaxTime)' /\ ScannersOK'
  BY <1>1 DEF TypeOK, Lk!TypeOK, ScannersOK, lockVars, scan
<1>3. StoreOK'
  <2> USE DEF TypeOK, StoreOK, Fault, Request, Inc, output
  <2>1. CASE EditTask(t)
    <3>1. done' \in [Tasks -> BOOLEAN] /\ assigned' \in [Tasks -> BOOLEAN]
      BY <2>1 DEF EditTask
    <3> QED
      BY <2>1, <3>1 DEF EditTask
  <2>2. ASSUME NEW remindAt \in Times, SetReminder(t, remindAt)
        PROVE  StoreOK'
    BY <2>2 DEF SetReminder
  <2>3. CASE ZAdd(t)
    BY <2>3 DEF ZAdd
  <2>4. CASE SetFails(t)
    BY <2>4 DEF SetFails
  <2>5. CASE CancelReminder(t)
    BY <2>5 DEF CancelReminder
  <2> QED
    BY <2>1, <2>2, <2>3, <2>4, <2>5 DEF UserStep
<1> QED
  BY <1>2, <1>3 DEF TypeOK

\* Every action of the lock keeps the types of its two variables.
LEMMA LockKeepsTypes ==
  ASSUME Lk!TypeOK, NEW s \in Scanners,
         \/ Lk!TryLock(s) \/ Lk!TryLockBusy(s) \/ Lk!TryLockReplyLost(s)
         \/ Lk!Unlock(s) \/ Lk!Abandon(s) \/ Lk!Expire
         \/ UNCHANGED lockVars
  PROVE  Lk!TypeOK'
  BY DEF Lk!TypeOK, Lk!TryLock, Lk!TryLockBusy, Lk!TryLockReplyLost, Lk!Unlock,
         Lk!Abandon, Lk!Expire, Lk!SetNX, Lk!RandomTokens, Lk!UnlockWithToken,
         Lk!vars, lockVars

LEMMA ScanKeepsTypes ==
  ASSUME TypeOK, NEW s \in Scanners, ScanStep(s) \/ ScanFault(s)
  PROVE  TypeOK'
<1>1. Lk!TypeOK' /\ (now \in 0..MaxTime)'
  BY LockKeepsTypes
     DEF TypeOK, ScanStep, ScanFault, TryLock, SkipTick, TryLockReplyLost, ReadDue,
         ReadTask, InsertOK, InsertRejected, InsertReplyLost, Announce, Enqueue,
         RemoveReminder, Unlock, ReadTaskFails, RemoveReplyLost, ReturnError, Crash
<1>2. at[s] \notin {"tick", "range", "unlock"} =>
        /\ batch[s] \in Seq(Tasks) /\ batch[s] # <<>>
        /\ Handled(s) \in Tasks /\ Tail(batch[s]) \in Seq(Tasks)
        /\ Tail(batch[s]) = <<>> <=> Len(batch[s]) = 1
  BY BatchTail DEF Handled, TypeOK, ScannersOK
<1>3. ScannersOK'
  <2> USE DEF TypeOK, ScannersOK, Goto, Stages, scan
  <2> HIDE DEF Handled
  <2>1. CASE TryLock(s) \/ SkipTick(s) \/ TryLockReplyLost(s)
    BY <2>1 DEF TryLock, SkipTick, TryLockReplyLost
  <2>2. CASE ReadDue(s)
    <3>1. PICK due \in DueInOrder(cut[s]) : batch' = [batch EXCEPT ![s] = due]
      BY <2>2 DEF ReadDue
    <3>2. due \in Seq(Tasks) /\ (due = <<>> <=> Due(cut[s]) = {})
      BY DueBatch
    <3> QED
      BY <2>2, <3>1, <3>2 DEF ReadDue
  <2>3. CASE ReadTask(s) \/ ReadTaskFails(s)
    BY <2>3 DEF ReadTask, ReadTaskFails
  <2>4. CASE InsertOK(s) \/ InsertRejected(s) \/ InsertReplyLost(s) \/ Announce(s)
    BY <2>4 DEF InsertOK, InsertRejected, InsertReplyLost, Announce
  <2>5. CASE Enqueue(s) \/ RemoveReplyLost(s) \/ ReturnError(s) \/ Crash(s)
    <3>1. /\ UNCHANGED cut /\ batch' = [batch EXCEPT ![s] = <<>>]
          /\ \E stage \in {"tick", "unlock"} : at' = [at EXCEPT ![s] = stage]
      BY <2>5 DEF Enqueue, RemoveReplyLost, ReturnError, Crash, Return
    <3>2. <<>> \in Seq(Tasks)
      OBVIOUS
    <3> QED
      BY <3>1, <3>2
  <2>6. CASE RemoveReminder(s)
    <3>1. /\ UNCHANGED cut /\ batch' = [batch EXCEPT ![s] = Tail(batch[s])]
          /\ at' = [at EXCEPT ![s] = IF Len(batch[s]) = 1 THEN "unlock" ELSE "read"]
      BY <2>6 DEF RemoveReminder
    <3>2. /\ Tail(batch[s]) \in Seq(Tasks)
          /\ Tail(batch[s]) = <<>> <=> Len(batch[s]) = 1
      BY <1>2, <2>6 DEF RemoveReminder
    <3>3. at' \in [Scanners -> Stages] /\ batch' \in [Scanners -> Seq(Tasks)]
      BY <3>1, <3>2
    <3>4. ASSUME NEW u \in Scanners
          PROVE  (batch'[u] = <<>>) <=> (at'[u] \in {"tick", "range", "unlock"})
      BY <3>1, <3>2
    <3> QED
      BY <3>1, <3>3, <3>4
  <2>7. CASE Unlock(s)
    BY <2>7 DEF Unlock
  <2> QED
    BY <2>1, <2>2, <2>3, <2>4, <2>5, <2>6, <2>7 DEF ScanStep, ScanFault
<1>4. StoreOK'
  <2> USE DEF TypeOK, StoreOK, Fault, store, output, history
  <2> HIDE DEF Handled
  <2>1. CASE \/ TryLock(s) \/ SkipTick(s) \/ TryLockReplyLost(s) \/ ReadDue(s)
             \/ Announce(s) \/ Unlock(s) \/ ReturnError(s) \/ Crash(s)
    BY <2>1 DEF TryLock, SkipTick, TryLockReplyLost, ReadDue, Announce, Unlock,
                ReturnError, Crash
  <2>2. CASE ReadTask(s)
    BY <1>2, <2>2 DEF ReadTask
  <2>3. CASE ReadTaskFails(s)
    <3>1. /\ UNCHANGED <<done, assigned, reminder, setting, sent, queued>>
          /\ UNCHANGED <<armed, owed, overlap, calls, rejected, overruns>>
      BY <2>3 DEF ReadTaskFails
    <3>2. misread' \in [Tasks -> BOOLEAN] /\ faults' \in Nat
      BY <1>2, <2>3, FlagType DEF ReadTaskFails
    <3> QED
      BY <3>1, <3>2
  <2>4. CASE InsertRejected(s)
    <3>1. (rejected + 1) \in Nat
      OBVIOUS
    <3> QED
      BY <2>4, <3>1 DEF InsertRejected
  <2>5. CASE RemoveReminder(s) \/ RemoveReplyLost(s)
    <3>1. /\ UNCHANGED <<done, assigned, setting, sent, queued>>
          /\ UNCHANGED <<armed, owed, overlap, misread, calls, rejected, overruns>>
          /\ faults' \in {faults, faults + 1}
      BY <2>5 DEF RemoveReminder, RemoveReplyLost
    <3>2. reminder' \in [Tasks -> Times \cup {NoTime}]
      BY <1>2, <2>5 DEF RemoveReminder, RemoveReplyLost
    <3> QED
      BY <3>1, <3>2
  <2>6. CASE InsertOK(s) \/ InsertReplyLost(s) \/ Enqueue(s)
    <3>1. /\ Inc(sent, Handled(s)) \in [Tasks -> Nat]
          /\ Inc(queued, Handled(s)) \in [Tasks -> Nat]
          /\ [owed EXCEPT ![Handled(s)] = FALSE] \in [Tasks -> BOOLEAN]
      BY <1>2, <2>6, CountedType, FlagType DEF InsertOK, InsertReplyLost, Enqueue
    <3>2. (faults + 1) \in Nat
      OBVIOUS
    <3>3. CASE InsertOK(s)
      BY <3>1, <3>3 DEF InsertOK
    <3>4. CASE InsertReplyLost(s)
      BY <3>1, <3>2, <3>4 DEF InsertReplyLost
    <3>5. CASE Enqueue(s)
      BY <3>1, <3>5 DEF Enqueue
    <3> QED
      BY <2>6, <3>3, <3>4, <3>5
  <2> QED
    BY <2>1, <2>2, <2>3, <2>4, <2>5, <2>6 DEF ScanStep, ScanFault
<1> QED
  BY <1>1, <1>3, <1>4 DEF TypeOK

\* Reminders are times, and a scanner has a batch exactly while it goes through
\* the due tasks (remind.go).
THEOREM ReminderTypeCorrect == Spec => []TypeOK
<1>1. Init => TypeOK
  BY TimeAssumption DEF Init, TypeOK, ScannersOK, StoreOK, Stages, Lk!Init, Lk!TypeOK
<1>2. TypeOK /\ [Next]_vars => TypeOK'
  <2> SUFFICES ASSUME TypeOK, [Next]_vars
               PROVE  TypeOK'
    OBVIOUS
  <2>1. CASE Tick
    BY <2>1, TimeAssumption DEF TypeOK, ScannersOK, StoreOK, Tick, Lk!TypeOK,
                                  lockVars, store, scan, output, history
  <2>2. CASE LockExpires
    BY <2>2 DEF TypeOK, ScannersOK, StoreOK, LockExpires, Lk!Expire, Lk!TypeOK,
                store, scan, output
  <2>3. CASE UNCHANGED vars
    BY <2>3 DEF TypeOK, ScannersOK, StoreOK, Lk!TypeOK, vars, lockVars, store, scan,
                output, history
  <2> QED
    BY <2>1, <2>2, <2>3, UserKeepsTypes, ScanKeepsTypes DEF Next
<1> QED
  BY <1>1, <1>2, PTL DEF Spec

-----------------------------------------------------------------------------
(* The scanner lock.                                                        *)

\* A scanner that is not waiting for its ticker has a lock, no two the same, and
\* within the lease it is the one that Redis stores.
ScanLocks ==
  /\ \A s \in Scanners : Scanning(s) <=> lock[s] # NoToken
  /\ Lk!OneOwner
  /\ overruns = 0 => \A s \in Scanners : Scanning(s) => lock[s] = key

LEMMA ScanLocksKept ==
  ASSUME TypeOK, ScanLocks, [Next]_vars
  PROVE  ScanLocks'
<1> USE DEF ScanLocks, Scanning, Lk!OneOwner
<1>1. ASSUME UNCHANGED lockVars, UNCHANGED overruns,
             \A s \in Scanners : Scanning(s)' <=> Scanning(s)
      PROVE  ScanLocks'
  BY <1>1 DEF lockVars
<1>2. CASE Tick \/ UNCHANGED vars
  BY <1>1, <1>2 DEF Tick, vars, scan, history
<1>3. ASSUME NEW t \in Tasks, UserStep(t)
      PROVE  ScanLocks'
  BY <1>1, <1>3 DEF UserStep, EditTask, SetReminder, ZAdd, SetFails, CancelReminder,
                    scan
<1>4. CASE LockExpires
  BY <1>4 DEF LockExpires, Lk!Expire, Lk!HasTTL, Lk!Holds, scan
<1>5. ASSUME NEW s \in Scanners, ScanStep(s) \/ ScanFault(s)
      PROVE  ScanLocks'
  <2> USE DEF TypeOK, ScannersOK, Lk!TypeOK, Goto, Stages
  <2>1. CASE TryLock(s)
    <3>1. PICK token \in Lk!RandomTokens :
            key = NoToken /\ key' = token /\ lock' = [lock EXCEPT ![s] = token]
      BY <2>1 DEF TryLock, Lk!TryLock, Lk!SetNX
    <3>2. /\ token # NoToken /\ \A u \in Scanners : lock[u] # token
          /\ at[s] = "tick" /\ at' = [at EXCEPT ![s] = "range"] /\ UNCHANGED overruns
      BY <2>1, TokenAssumption DEF TryLock, Lk!RandomTokens, history
    <3> QED
      BY <3>1, <3>2
  <2>2. CASE TryLockReplyLost(s)
    BY <2>2 DEF TryLockReplyLost, Lk!TryLockReplyLost, Lk!SetNX, scan
  <2>3. CASE SkipTick(s)
    BY <1>1, <2>3 DEF SkipTick, Lk!TryLockBusy, Lk!vars, lockVars, scan, history
  <2>4. CASE \/ ReadDue(s) \/ ReadTask(s) \/ InsertOK(s) \/ InsertRejected(s) \/ Announce(s)
             \/ ReadTaskFails(s) \/ InsertReplyLost(s) \/ Enqueue(s) \/ RemoveReminder(s)
             \/ RemoveReplyLost(s) \/ ReturnError(s)
    <3>1. UNCHANGED lockVars /\ UNCHANGED overruns
      BY <2>4 DEF ReadDue, ReadTask, InsertOK, InsertRejected, InsertReplyLost,
                  Announce, Enqueue, RemoveReminder, ReadTaskFails, RemoveReplyLost,
                  ReturnError, history
    <3>2. at[s] # "tick" /\ \E stage \in Stages \ {"tick"} : at' = [at EXCEPT ![s] = stage]
      BY <2>4 DEF ReadDue, ReadTask, InsertOK, InsertRejected, InsertReplyLost,
                  Announce, Enqueue, RemoveReminder, ReadTaskFails, RemoveReplyLost,
                  ReturnError, Return
    <3> QED
      BY <1>1, <3>1, <3>2
  <2>5. CASE Unlock(s)
    BY <2>5 DEF Unlock, Lk!Unlock, Lk!UnlockWithToken, history
  <2>6. CASE Crash(s)
    BY <2>6 DEF Crash, Lk!Abandon
  <2> QED
    BY <1>5, <2>1, <2>2, <2>3, <2>4, <2>5, <2>6 DEF ScanStep, ScanFault
<1> QED
  BY <1>2, <1>3, <1>4, <1>5 DEF Next

LEMMA ScanLocksAlways == Spec => []ScanLocks
<1>1. Init => ScanLocks
  BY DEF Init, Lk!Init, ScanLocks, Scanning, Lk!OneOwner
<1> QED
  BY <1>1, ScanLocksKept, ReminderTypeCorrect, PTL DEF Spec

\* Within the lease one scanner works, whatever crashes and whichever replies are
\* lost (remind.go scanDueRemindersWithLock).
THEOREM ScannerAlone == Spec => []OneScanner
<1>1. ScanLocks => OneScanner
  BY DEF ScanLocks, OneScanner, Lk!OneOwner, Scanning
<1> QED
  BY <1>1, ScanLocksAlways, PTL

-----------------------------------------------------------------------------
(* No reminder is forgotten.                                                *)

\* A task that a scanner is about to remove is owed a notification only if its
\* reminder was set again after the scanner read the batch, or if it could not
\* read the task.
KeptInv ==
  /\ ReminderKept
  /\ \A s \in Scanners :
       at[s] \in {"announce", "remove"} /\ owed[Handled(s)] =>
         overlap[Handled(s)] \/ misread[Handled(s)]

LEMMA KeptStep ==
  ASSUME TypeOK, KeptInv, [Next]_vars
  PROVE  KeptInv'
<1> USE DEF KeptInv, ReminderKept
<1>0. \A u \in Scanners :
        at[u] \in {"announce", "remove"} =>
          /\ batch[u] \in Seq(Tasks) /\ Handled(u) \in Tasks
          /\ Handled(u) \in ToSet(batch[u])
  BY BatchTail DEF Handled, TypeOK, ScannersOK
<1>1. CASE Tick \/ LockExpires \/ UNCHANGED vars
  BY <1>1 DEF Tick, LockExpires, vars, store, scan, history, Handled
<1>2. ASSUME NEW t \in Tasks, UserStep(t)
      PROVE  KeptInv'
  <2>1. UNCHANGED <<at, batch>> /\ \A u \in Scanners : Handled(u)' = Handled(u)
    BY <1>2 DEF UserStep, EditTask, SetReminder, ZAdd, SetFails, CancelReminder, scan,
                Handled
  <2>2. CASE EditTask(t) \/ SetFails(t) \/ \E remindAt \in Times : SetReminder(t, remindAt)
    BY <2>1, <2>2 DEF EditTask, SetReminder, SetFails
  <2>3. CASE ZAdd(t)
    <3>1. /\ reminder' = [reminder EXCEPT ![t] = setting[t]] /\ setting[t] # NoTime
          /\ misread' = [misread EXCEPT ![t] = FALSE]
          /\ overlap' = [overlap EXCEPT ![t] = \E s \in Scanners : t \in ToSet(batch[s])]
          /\ owed' = [owed EXCEPT ![t] = TRUE]
      BY <2>3 DEF ZAdd
    <3>2. /\ reminder'[t] # NoTime
          /\ \A v \in Tasks \ {t} : /\ reminder'[v] = reminder[v]
                                    /\ overlap'[v] = overlap[v] /\ owed'[v] = owed[v]
                                    /\ misread'[v] = misread[v]
          /\ (\E s \in Scanners : t \in ToSet(batch[s])) => overlap'[t]
      BY <3>1 DEF TypeOK, StoreOK
    <3> QED
      BY <1>0, <2>1, <3>2
  <2>4. CASE CancelReminder(t)
    <3>1. /\ ~ owed'[t] /\ UNCHANGED <<overlap, misread>>
          /\ \A v \in Tasks \ {t} : reminder'[v] = reminder[v] /\ owed'[v] = owed[v]
      BY <2>4 DEF CancelReminder, TypeOK, StoreOK
    <3> QED
      BY <1>0, <2>1, <3>1
  <2> QED
    BY <1>2, <2>2, <2>3, <2>4 DEF UserStep
<1>3. ASSUME NEW s \in Scanners, ScanStep(s) \/ ScanFault(s)
      PROVE  KeptInv'
  <2>1. UNCHANGED overlap /\ \A v \in Tasks : misread[v] => misread'[v]
    <3>1. CASE ReadTaskFails(s)
      BY <3>1, BatchTail DEF ReadTaskFails, Handled, TypeOK, ScannersOK, StoreOK
    <3>2. CASE ~ ReadTaskFails(s)
      BY <1>3, <3>2 DEF ScanStep, ScanFault, TryLock, SkipTick, TryLockReplyLost,
                        ReadDue, ReadTask, InsertOK, InsertRejected, InsertReplyLost,
                        Announce, Enqueue, RemoveReminder, RemoveReplyLost, Unlock,
                        ReturnError, Crash, history
    <3> QED
      BY <3>1, <3>2
  <2>2. /\ \A u \in Scanners \ {s} : at'[u] = at[u] /\ Handled(u)' = Handled(u)
        /\ \A v \in Tasks : owed'[v] => owed[v]
    <3>1. \A u \in Scanners \ {s} : at'[u] = at[u] /\ batch'[u] = batch[u]
      BY <1>3 DEF ScanStep, ScanFault, TryLock, SkipTick, TryLockReplyLost, ReadDue,
                  ReadTask, InsertOK, InsertRejected, InsertReplyLost, Announce,
                  Enqueue, RemoveReminder, Unlock, ReadTaskFails, RemoveReplyLost,
                  ReturnError, Crash, scan, Goto, Return, TypeOK, ScannersOK
    <3>2. UNCHANGED owed \/ \E v \in Tasks : owed' = [owed EXCEPT ![v] = FALSE]
      <4>1. at[s] \in {"read", "insert", "enqueue"} => Handled(s) \in Tasks
        BY BatchTail DEF Handled, TypeOK, ScannersOK
      <4> QED
        BY <1>3, <4>1
           DEF ScanStep, ScanFault, TryLock, SkipTick, TryLockReplyLost, ReadDue,
               ReadTask, InsertOK, InsertRejected, InsertReplyLost, Announce, Enqueue,
               RemoveReminder, Unlock, ReadTaskFails, RemoveReplyLost, ReturnError,
               Crash, history
    <3> QED
      BY <3>1, <3>2 DEF Handled, TypeOK, StoreOK
  <2>3. at'[s] \in {"announce", "remove"} =>
          /\ Handled(s)' = Handled(s) /\ Handled(s) \in Tasks
          /\ \/ ~ owed'[Handled(s)]
             \/ at[s] = "announce"
             \/ misread'[Handled(s)]
    <3> USE DEF Goto, Return, TypeOK, ScannersOK, StoreOK
    <3>1. CASE ReadTask(s) \/ ReadTaskFails(s) \/ InsertOK(s) \/ Announce(s)
      <4>1. Handled(s)' = Handled(s) /\ Handled(s) \in Tasks
        BY <3>1, BatchTail DEF ReadTask, ReadTaskFails, InsertOK, Announce, Handled
      <4> QED
        BY <3>1, <4>1 DEF ReadTask, ReadTaskFails, InsertOK, Announce
    <3>2. CASE ~ (ReadTask(s) \/ ReadTaskFails(s) \/ InsertOK(s) \/ Announce(s))
      BY <1>3, <3>2
         DEF ScanStep, ScanFault, TryLock, SkipTick, TryLockReplyLost, ReadDue,
             InsertRejected, InsertReplyLost, Enqueue, RemoveReminder,
             Unlock, ReadTaskFails, RemoveReplyLost, ReturnError, Crash, scan
    <3> QED
      BY <3>1, <3>2
  <2>4. \A v \in Tasks :
          \/ reminder'[v] = reminder[v]
          \/ at[s] = "remove" /\ v = Handled(s)
    BY <1>3 DEF ScanStep, ScanFault, TryLock, SkipTick, TryLockReplyLost, ReadDue,
                ReadTask, InsertOK, InsertRejected, InsertReplyLost, Announce, Enqueue,
                RemoveReminder, Unlock, ReadTaskFails, RemoveReplyLost, ReturnError,
                Crash, store, TypeOK, StoreOK
  <2> QED
    BY <1>0, <2>1, <2>2, <2>3, <2>4
<1> QED
  BY <1>1, <1>2, <1>3 DEF Next

\* A reminder whose notification is still owed is in the sorted set, unless it
\* was set again while a scanner had it in its batch, or a scan got an error from
\* the SELECT of its task and removed it (remind.go ScanDueReminders,
\* removeTaskReminder).
THEOREM ReminderNotLost == Spec => []ReminderKept
<1>1. Init => KeptInv
  BY DEF Init, KeptInv, ReminderKept
<1>2. KeptInv => ReminderKept
  BY DEF KeptInv
<1> QED
  BY <1>1, <1>2, KeptStep, ReminderTypeCorrect, PTL DEF Spec

-----------------------------------------------------------------------------
(* One notification for each setting.                                       *)

Calm == faults = 0 /\ overruns = 0

\* What a reminder may still lead to.  One whose row is inserted leads to no
\* more; one that is set or waits in a batch to one, and a payload on its way to
\* the retry queue is one, after which the rest of the batch is forgotten.
Told(t) == \E s \in Scanners : at[s] \in {"announce", "remove"} /\ Handled(s) = t
Queuing(t) == \E s \in Scanners : at[s] = "enqueue" /\ Handled(s) = t
Waiting(t) ==
  \/ reminder[t] # NoTime
  \/ \E s \in Scanners : at[s] # "enqueue" /\ t \in ToSet(batch[s])

Bit(b) == IF b THEN 1 ELSE 0
Weight(t) == IF Told(t) THEN 0 ELSE Bit(Waiting(t)) + Bit(Queuing(t))

NotifiedInv ==
  /\ \A s \in Scanners : OneEach(batch[s])
  /\ Calm => \A t \in Tasks : sent[t] + queued[t] + Weight(t) <= armed[t] + rejected

LEMMA IncAt ==
  ASSUME NEW f \in [Tasks -> Nat], NEW v \in Tasks, NEW t \in Tasks
  PROVE  Inc(f, v)[t] = f[t] + Bit(v = t)
BY DEF Inc, Bit

LEMMA WeightType == ASSUME NEW t PROVE Weight(t) \in 0..2
BY DEF Weight, Bit

\* The state of the one scanner that works decides.
WeightAt(s, t) ==
  IF at[s] \in {"announce", "remove"} /\ Handled(s) = t THEN 0
  ELSE Bit(reminder[t] # NoTime \/ (at[s] # "enqueue" /\ t \in ToSet(batch[s])))
       + Bit(at[s] = "enqueue" /\ Handled(s) = t)

ScannerDecides ==
  \A s \in Scanners, t \in Tasks :
    TypeOK /\ OneScanner /\ Calm /\ Scanning(s) => Weight(t) = WeightAt(s, t)

LEMMA WeightOfScan == ScannerDecides
<1> SUFFICES ASSUME TypeOK, OneScanner, Calm, NEW s \in Scanners, Scanning(s), NEW t \in Tasks
             PROVE  Weight(t) = WeightAt(s, t)
  BY DEF ScannerDecides
<1>1. ASSUME NEW u \in Scanners, u # s
      PROVE  at[u] = "tick" /\ batch[u] = <<>> /\ ToSet(batch[u]) = {}
  BY <1>1 DEF TypeOK, ScannersOK, OneScanner, Scanning, Calm, ToSet
<1>2. Told(t) <=> at[s] \in {"announce", "remove"} /\ Handled(s) = t
  BY <1>1 DEF Told
<1>3. Queuing(t) <=> at[s] = "enqueue" /\ Handled(s) = t
  BY <1>1 DEF Queuing
<1>4. Waiting(t) <=> reminder[t] # NoTime \/ (at[s] # "enqueue" /\ t \in ToSet(batch[s]))
  BY <1>1 DEF Waiting
<1> QED
  BY <1>2, <1>3, <1>4 DEF Weight, WeightAt, Bit

LEMMA WeightOfScanNext == ScannerDecides'
BY WeightOfScan, PTL

LEMMA BatchesOneEach ==
  ASSUME TypeOK, \A s \in Scanners : OneEach(batch[s]), [Next]_vars
  PROVE  \A s \in Scanners : OneEach(batch[s])'
<1>1. CASE Tick \/ LockExpires \/ UNCHANGED vars
  BY <1>1 DEF Tick, LockExpires, vars, scan, OneEach
<1>2. ASSUME NEW t \in Tasks, UserStep(t)
      PROVE  UNCHANGED batch
  BY <1>2 DEF UserStep, EditTask, SetReminder, ZAdd, SetFails, CancelReminder, scan
<1>3. ASSUME NEW s \in Scanners, ScanStep(s) \/ ScanFault(s), NEW u \in Scanners
      PROVE  OneEach(batch'[u])
  <2>1. CASE ReadDue(s)
    <3>1. PICK due \in DueInOrder(cut[s]) : batch' = [batch EXCEPT ![s] = due]
      BY <2>1 DEF ReadDue
    <3>2. OneEach(due)
      BY DueBatch
    <3> QED
      BY <3>1, <3>2 DEF TypeOK, ScannersOK
  <2>2. CASE RemoveReminder(s)
    <3>1. batch' = [batch EXCEPT ![s] = Tail(batch[s])] /\ OneEach(Tail(batch[s]))
      BY <2>2, BatchTail DEF RemoveReminder, TypeOK, ScannersOK
    <3> QED
      BY <3>1 DEF TypeOK, ScannersOK
  <2>3. CASE ~ ReadDue(s) /\ ~ RemoveReminder(s)
    <3>1. UNCHANGED batch \/ batch' = [batch EXCEPT ![s] = <<>>]
      BY <1>3, <2>3
         DEF ScanStep, ScanFault, TryLock, SkipTick, TryLockReplyLost, ReadTask,
             InsertOK, InsertRejected, InsertReplyLost, Announce, Enqueue,
             Unlock, ReadTaskFails, RemoveReplyLost, ReturnError, Crash, Return, scan
    <3>2. OneEach(<<>>)
      BY DEF OneEach
    <3> QED
      BY <3>1, <3>2 DEF TypeOK, ScannersOK
  <2> QED
    BY <2>1, <2>2, <2>3
<1> QED
  BY <1>1, <1>2, <1>3 DEF Next, OneEach

\* Steps that neither insert nor queue anything.
LEMMA WeightSmaller ==
  ASSUME TypeOK, TypeOK', NEW t \in Tasks,
         sent'[t] = sent[t], queued'[t] = queued[t],
         armed'[t] = armed[t], rejected' = rejected,
         sent[t] + queued[t] + Weight(t) <= armed[t] + rejected,
         Weight(t)' <= Weight(t)
  PROVE  sent'[t] + queued'[t] + Weight(t)' <= armed'[t] + rejected'
<1>1. /\ sent[t] \in Nat /\ queued[t] \in Nat /\ armed[t] \in Nat /\ rejected \in Nat
      /\ Weight(t) \in 0..2
  BY WeightType DEF TypeOK, StoreOK
<1>2. Weight(t)' \in 0..2
  BY DEF Weight, Bit
<1> HIDE DEF Weight
<1> QED
  BY <1>1, <1>2

LEMMA UserKeepsNotified ==
  ASSUME TypeOK, TypeOK', Calm, NEW v \in Tasks, UserStep(v), faults' = 0,
         NEW t \in Tasks, sent[t] + queued[t] + Weight(t) <= armed[t] + rejected
  PROVE  sent'[t] + queued'[t] + Weight(t)' <= armed'[t] + rejected'
<1>1. UNCHANGED <<at, batch, sent, queued, rejected>>
  BY DEF UserStep, EditTask, SetReminder, ZAdd, SetFails, CancelReminder, scan, output
<1>2. (Told(t)' <=> Told(t)) /\ (Queuing(t)' <=> Queuing(t))
  BY <1>1 DEF Told, Queuing, Handled
<1>3. CASE reminder'[t] = reminder[t] /\ armed'[t] = armed[t]
  <2>1. Waiting(t)' <=> Waiting(t)
    BY <1>1, <1>3 DEF Waiting
  <2>2. Weight(t)' <= Weight(t)
    BY <1>2, <2>1 DEF Weight, Bit
  <2> QED
    BY <1>1, <1>3, <2>2, WeightSmaller
<1>4. CASE ZAdd(v) /\ t = v
  <2>1. armed'[t] = armed[t] + 1
    BY <1>4 DEF ZAdd, Inc, TypeOK, StoreOK
  <2>2. Weight(t)' <= Weight(t) + 1 /\ Weight(t) \in Nat /\ Weight(t)' \in Nat
    BY <1>2 DEF Weight, Bit
  <2>3. sent[t] \in Nat /\ queued[t] \in Nat /\ armed[t] \in Nat /\ rejected \in Nat
    BY DEF TypeOK, StoreOK
  <2> HIDE DEF Weight
  <2> QED
    BY <1>1, <2>1, <2>2, <2>3
<1>5. CASE CancelReminder(v) /\ t = v
  <2>1. armed'[t] = armed[t] /\ reminder'[t] = NoTime
    BY <1>5 DEF CancelReminder, TypeOK, StoreOK
  <2>2. Waiting(t)' => Waiting(t)
    BY <1>1, <2>1 DEF Waiting
  <2>3. Weight(t)' <= Weight(t)
    BY <1>2, <2>2 DEF Weight, Bit
  <2> QED
    BY <1>1, <2>1, <2>3, WeightSmaller
<1> QED
  BY <1>3, <1>4, <1>5
     DEF UserStep, EditTask, SetReminder, ZAdd, SetFails, CancelReminder, Inc, TypeOK,
         StoreOK

LEMMA ScanKeepsNotified ==
  ASSUME TypeOK, TypeOK', OneScanner, OneScanner', Calm, Calm',
         \A u \in Scanners : OneEach(batch[u]),
         NEW s \in Scanners, ScanStep(s) \/ ScanFault(s),
         NEW t \in Tasks, sent[t] + queued[t] + Weight(t) <= armed[t] + rejected
  PROVE  sent'[t] + queued'[t] + Weight(t)' <= armed'[t] + rejected'
<1> DEFINE h == Handled(s)
           b == batch[s]
<1>1. /\ at \in [Scanners -> Stages] /\ batch \in [Scanners -> Seq(Tasks)]
      /\ at[s] \in {"read", "insert", "enqueue", "announce", "remove"} =>
           b # <<>> /\ h \in Tasks /\ h \in ToSet(b) /\ h \notin ToSet(Tail(b))
           /\ ToSet(Tail(b)) \subseteq ToSet(b)
  BY BatchTail DEF TypeOK, ScannersOK, Handled
<1>2. UNCHANGED armed /\ (rejected' = rejected \/ rejected' = rejected + 1)
  BY DEF ScanStep, ScanFault, TryLock, SkipTick, TryLockReplyLost, ReadDue, ReadTask,
         InsertOK, InsertRejected, InsertReplyLost, Announce, Enqueue, RemoveReminder,
         Unlock, ReadTaskFails, RemoveReplyLost, ReturnError, Crash, history
<1>3. ~ ScanFault(s)
  BY DEF ScanFault, TryLockReplyLost, InsertReplyLost, ReadTaskFails, RemoveReplyLost,
         ReturnError, Crash, Fault, Calm
<1>4. /\ sent[t] \in Nat /\ queued[t] \in Nat /\ armed[t] \in Nat /\ rejected \in Nat
      /\ Weight(t) \in Nat /\ Weight(t)' \in Nat
  BY DEF TypeOK, StoreOK, Weight, Bit
\* The weights before and after, at the one scanner.
\* The weights before and after the step.
<1>5. /\ Scanning(s) => Weight(t) = WeightAt(s, t)
      /\ Scanning(s)' => Weight(t)' = WeightAt(s, t)'
  BY WeightOfScan, WeightOfScanNext DEF ScannerDecides
<1>6. CASE Scanning(s) /\ Scanning(s)'
  <2> USE DEF WeightAt, Bit, Goto, Handled
  <2>1. CASE ReadDue(s)
    <3>1. PICK due \in DueInOrder(cut[s]) : batch' = [batch EXCEPT ![s] = due]
      BY <2>1 DEF ReadDue
    <3>2. ToSet(due) \subseteq Due(cut[s]) /\ batch'[s] = due /\ b = <<>>
      BY <1>1, <2>1, <3>1, DueBatch DEF ReadDue, TypeOK, ScannersOK
    <3>3. /\ at[s] = "range" /\ at'[s] \in {"unlock", "read"}
          /\ UNCHANGED <<reminder, sent, queued, rejected>>
      BY <1>1, <2>1 DEF ReadDue, store, output, history
    <3>4. Weight(t)' <= Weight(t)
      BY <1>5, <1>6, <3>2, <3>3 DEF Due
    <3> QED
      BY <1>2, <3>3, <3>4, WeightSmaller
  <2>2. CASE ReadTask(s)
    <3>1. /\ at[s] = "read" /\ at'[s] \in {"insert", "remove"} /\ batch' = batch
          /\ UNCHANGED <<reminder, sent, queued, rejected>>
      BY <1>1, <2>2 DEF ReadTask, store, output
    <3>2. Weight(t)' <= Weight(t)
      BY <1>5, <1>6, <3>1
    <3> QED
      BY <1>2, <3>1, <3>2, WeightSmaller
  <2>3. CASE InsertOK(s)
    <3>1. /\ at[s] = "insert" /\ at'[s] = "announce" /\ batch' = batch
          /\ UNCHANGED <<reminder, queued, rejected>>
      BY <1>1, <2>3 DEF InsertOK, store
    <3>2. sent'[t] = sent[t] + Bit(h = t)
      <4>1. sent' = Inc(sent, h) /\ h \in Tasks /\ sent \in [Tasks -> Nat]
        BY <1>1, <2>3 DEF InsertOK, TypeOK, StoreOK
      <4> QED
        BY ONLY <4>1, IncAt, t \in Tasks
    <3>3. Weight(t)' + Bit(h = t) <= Weight(t)
      BY <1>1, <1>5, <1>6, <3>1
    <3> QED
      BY <1>2, <1>4, <3>1, <3>2, <3>3
  <2>4. CASE InsertRejected(s)
    <3>1. /\ at[s] = "insert" /\ at'[s] = "enqueue" /\ batch' = batch
          /\ UNCHANGED <<reminder, sent, queued>> /\ rejected' = rejected + 1
      BY <1>1, <2>4 DEF InsertRejected, store, output
    <3>2. Weight(t)' <= Weight(t) + 1
      BY <1>1, <1>5, <1>6, <3>1
    <3> QED
      BY <1>2, <1>4, <3>1, <3>2
  <2>5. CASE Announce(s)
    <3>1. /\ at[s] = "announce" /\ at'[s] = "remove" /\ batch' = batch
          /\ UNCHANGED <<reminder, sent, queued, rejected>>
      BY <1>1, <2>5 DEF Announce, store, output, history
    <3>2. Weight(t)' <= Weight(t)
      BY <1>5, <1>6, <3>1
    <3> QED
      BY <1>2, <3>1, <3>2, WeightSmaller
  <2>6. CASE Enqueue(s)
    <3>1. /\ at[s] = "enqueue" /\ at'[s] = "unlock" /\ batch'[s] = <<>>
          /\ UNCHANGED <<reminder, sent, rejected>>
      BY <1>1, <2>6 DEF Enqueue, Return, store
    <3>2. queued'[t] = queued[t] + Bit(h = t)
      <4>1. queued' = Inc(queued, h) /\ h \in Tasks /\ queued \in [Tasks -> Nat]
        BY <1>1, <2>6 DEF Enqueue, TypeOK, StoreOK
      <4> QED
        BY ONLY <4>1, IncAt, t \in Tasks
    <3>3. Weight(t)' + Bit(h = t) <= Weight(t)
      BY <1>1, <1>5, <1>6, <3>1 DEF ToSet
    <3> QED
      BY <1>2, <1>4, <3>1, <3>2, <3>3
  <2>7. CASE RemoveReminder(s)
    <3>1. /\ at[s] = "remove" /\ at'[s] \in {"unlock", "read"} /\ batch'[s] = Tail(b)
          /\ UNCHANGED <<sent, queued, rejected>>
          /\ reminder'[t] = IF h = t THEN NoTime ELSE reminder[t]
      BY <1>1, <2>7 DEF RemoveReminder, output, history, TypeOK, StoreOK
    <3>2. Weight(t)' <= Weight(t)
      BY <1>1, <1>5, <1>6, <3>1
    <3> QED
      BY <1>2, <3>1, <3>2, WeightSmaller
  <2>8. CASE TryLock(s) \/ SkipTick(s) \/ Unlock(s)
    BY <1>1, <1>6, <2>8 DEF TryLock, SkipTick, Unlock, Scanning
  <2> QED
    BY <1>3, <2>1, <2>2, <2>3, <2>4, <2>5, <2>6, <2>7, <2>8 DEF ScanStep
\* The scanner takes or gives back the lock, or goes on waiting.
<1>7. CASE ~ (Scanning(s) /\ Scanning(s)')
  <2>1. TryLock(s) \/ SkipTick(s) \/ Unlock(s)
    BY <1>1, <1>3, <1>7
       DEF ScanStep, ReadDue, ReadTask, InsertOK, InsertRejected, Announce, Enqueue,
           Return, RemoveReminder, Goto, Scanning
  <2>2. /\ UNCHANGED <<batch, reminder, sent, queued, rejected>>
        /\ \A u \in Scanners :
             \/ at'[u] = at[u]
             \/ {at[u], at'[u]} \subseteq {"tick", "range", "unlock"} /\ batch[u] = <<>>
    BY <1>1, <2>1
       DEF TryLock, SkipTick, Unlock, Goto, store, scan, output, history, TypeOK,
           ScannersOK
  <2>3. (Told(t)' <=> Told(t)) /\ (Queuing(t)' <=> Queuing(t)) /\ (Waiting(t)' <=> Waiting(t))
    BY <2>2 DEF Told, Queuing, Waiting, Handled
  <2>4. Weight(t)' <= Weight(t)
    BY <2>3 DEF Weight, Bit
  <2> QED
    BY <1>2, <2>2, <2>4, WeightSmaller
<1> QED
  BY <1>6, <1>7

LEMMA NotifiedStep ==
  ASSUME TypeOK, TypeOK', OneScanner, OneScanner', NotifiedInv, [Next]_vars
  PROVE  NotifiedInv'
<1>1. \A s \in Scanners : OneEach(batch[s])'
  BY BatchesOneEach DEF NotifiedInv
<1>2. ASSUME Calm', NEW t \in Tasks
      PROVE  sent'[t] + queued'[t] + Weight(t)' <= armed'[t] + rejected'
  <2>1. Calm
    <3>1. (faults' = faults \/ faults' = faults + 1) /\ overruns' \in {overruns, 1}
      BY DEF Next, Tick, LockExpires, vars, history, UserStep, EditTask, SetReminder,
             ZAdd, SetFails, CancelReminder, ScanStep, ScanFault, TryLock, SkipTick,
             TryLockReplyLost, ReadDue, ReadTask, InsertOK, InsertRejected,
             InsertReplyLost, Announce, Enqueue, RemoveReminder, Unlock, ReadTaskFails,
             RemoveReplyLost, ReturnError, Crash, Fault
    <3> QED
      BY <1>2, <3>1 DEF Calm, TypeOK, StoreOK
  <2>2. sent[t] + queued[t] + Weight(t) <= armed[t] + rejected
    BY <2>1 DEF NotifiedInv
  <2>3. CASE Tick \/ LockExpires \/ UNCHANGED vars
    <3>1. UNCHANGED <<at, batch, reminder, sent, queued, armed, rejected>>
      BY <2>3 DEF Tick, LockExpires, vars, store, scan, output, history
    <3>2. Weight(t)' = Weight(t)
      BY <3>1 DEF Weight, Told, Queuing, Waiting, Handled
    <3> QED
      BY <2>2, <3>1, <3>2
  <2>4. ASSUME NEW v \in Tasks, UserStep(v)
        PROVE  sent'[t] + queued'[t] + Weight(t)' <= armed'[t] + rejected'
    BY <1>2, <2>1, <2>2, <2>4, UserKeepsNotified DEF Calm
  <2>5. ASSUME NEW s \in Scanners, ScanStep(s) \/ ScanFault(s)
        PROVE  sent'[t] + queued'[t] + Weight(t)' <= armed'[t] + rejected'
    BY <1>2, <2>1, <2>2, <2>5, ScanKeepsNotified DEF NotifiedInv
  <2> QED
    BY <2>3, <2>4, <2>5 DEF Next
<1> QED
  BY <1>1, <1>2 DEF NotifiedInv

\* While nothing fails, a reminder leads to one notification for each time it was
\* set, and to one more for each rejected INSERT (remind.go ScanDueReminders).
THEOREM ReminderNotifiesOnce == Spec => []NotifiedAtMostOnce
<1>1. Init => NotifiedInv
  <2>1. OneEach(<<>>) /\ ToSet(<<>>) = {}
    BY DEF OneEach, ToSet
  <2> QED
    BY <2>1 DEF Init, NotifiedInv, Weight, Told, Queuing, Waiting, Bit
<1>2. TypeOK /\ NotifiedInv => NotifiedAtMostOnce
  <2> SUFFICES ASSUME TypeOK, NotifiedInv, Calm, NEW t \in Tasks
               PROVE  sent[t] + queued[t] <= armed[t] + rejected
    BY DEF NotifiedAtMostOnce, Calm
  <2>1. /\ sent[t] + queued[t] + Weight(t) <= armed[t] + rejected
        /\ Weight(t) \in 0..2
    BY WeightType DEF NotifiedInv
  <2>2. sent[t] \in Nat /\ queued[t] \in Nat /\ armed[t] \in Nat /\ rejected \in Nat
    BY DEF TypeOK, StoreOK
  <2> QED
    BY <2>1, <2>2
<1> QED
  BY <1>1, <1>2, NotifiedStep, ReminderTypeCorrect, ScannerAlone, PTL DEF Spec

-----------------------------------------------------------------------------
(* The scanners implement the lease.                                        *)

\* Whatever a scan does, the scanners use the key of their lock and their Lock
\* values as the lease of DistLock prescribes, and in no other way.
THEOREM ReminderImplementsLock == Spec => Lk!Spec
<1>1. Init => Lk!Init
  BY DEF Init
<1>2. [Next]_vars => [Lk!Next]_(Lk!vars)
  <2> USE DEF Lk!vars, lockVars
  <2>1. ASSUME NEW t \in Tasks, UserStep(t)
        PROVE  UNCHANGED Lk!vars
    BY <2>1 DEF UserStep, EditTask, SetReminder, ZAdd, SetFails, CancelReminder
  <2>2. ASSUME NEW s \in Scanners, ScanStep(s) \/ ScanFault(s)
        PROVE  [Lk!Next]_(Lk!vars)
    <3>1. \/ UNCHANGED Lk!vars
          \/ Lk!TryLock(s) \/ Lk!TryLockBusy(s) \/ Lk!TryLockReplyLost(s)
          \/ Lk!Unlock(s) \/ Lk!Abandon(s)
      BY <2>2 DEF ScanStep, ScanFault, TryLock, SkipTick, TryLockReplyLost, ReadDue,
                  ReadTask, InsertOK, InsertRejected, InsertReplyLost, Announce,
                  Enqueue, RemoveReminder, Unlock, ReadTaskFails, RemoveReplyLost,
                  ReturnError, Crash
    <3> QED
      BY <3>1 DEF Lk!Next
  <2>3. ASSUME LockExpires
        PROVE  Lk!Next
    BY <2>3 DEF LockExpires, Lk!Next
  <2>4. CASE Tick
    BY <2>4 DEF Tick
  <2>5. CASE UNCHANGED vars
    BY <2>5 DEF vars
  <2> QED
    BY <2>1, <2>2, <2>3, <2>4, <2>5 DEF Next
<1> QED
  BY <1>1, <1>2, PTL DEF Spec, Lk!Spec

=============================================================================
