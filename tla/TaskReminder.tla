---------------------------- MODULE TaskReminder ----------------------------
(***************************************************************************)
(* The task reminders of internal/logic/task/remind.go: a Redis sorted set *)
(* task:reminder whose member is a task and whose score is the time of its *)
(* reminder, SetReminder and CancelReminder, and in every instance a       *)
(* scanner that, under the scanner lock, turns due reminders into          *)
(* notifications for the assignee.                                         *)
(*                                                                         *)
(* A step is one round trip to Redis or MySQL.  What CreateNotification    *)
(* queues is delivered by the workers of NotificationRetry.                *)
(***************************************************************************)
EXTENDS Naturals, Sequences, FiniteSets, SequencesExt

CONSTANTS
  Tasks,
  Scanners,     \* the scanner goroutine of each running instance
  Tokens, NoToken,  \* values of the scanner lock, see DistLock
  NoTime,       \* "the task has no reminder"
  MaxTime,      \* bound: the clock stops there
  MaxCalls,     \* bound: SetReminder calls and changes of tasks
  MaxRejects,   \* bound: INSERTs that MySQL rejects
  MaxFaults     \* bound: crashes, lost replies and other error answers

Times == 1..MaxTime

ASSUME TimeAssumption == MaxTime \in Nat /\ NoTime \notin Times
ASSUME TasksAssumption == IsFiniteSet(Tasks)
\* A token that randomToken draws is never the marker for "no token".
ASSUME TokenAssumption == NoToken \notin Tokens

VARIABLES
  key, lock,    \* lock:task:reminder:scanner and each scanner's *Lock
  now,          \* time.Now().Unix()
  done, assigned,   \* task.Status = "done", task.AssigneeId # 0, in MySQL
  reminder,     \* reminder[t]: score of t in task:reminder
  setting,      \* setting[t]: remindAt of a SetReminder call before its ZADD
  at,           \* at[s]: the next round trip of scanner s
  cut,          \* cut[s]: the "now" of its current scan
  batch,        \* batch[s]: the due tasks it has not finished, its current
                \* one first
  sent,         \* sent[t]: rows that scanners inserted for t
  queued,       \* queued[t]: payloads for t given to the retry queue
  armed, owed, overlap, misread, calls, rejected, faults, overruns
                \* history, read by properties and bounds only (see below)

lockVars == <<key, lock>>
store    == <<reminder, setting, done, assigned>>
scan     == <<at, cut, batch>>
output   == <<sent, queued>>
history  == <<armed, owed, overlap, misread, calls, rejected, faults, overruns>>
vars     == <<lockVars, now, store, scan, output, history>>

Lk == INSTANCE DistLock WITH Clients <- Scanners

Stages == {"tick", "range", "read", "insert", "enqueue", "announce", "remove",
           "unlock"}

Handled(s) == Head(batch[s])

\* A scanner that looks at a task has one, and nobody else has a batch.
ScannersOK ==
  /\ at \in [Scanners -> Stages]
  /\ cut \in [Scanners -> 0..MaxTime]
  /\ batch \in [Scanners -> Seq(Tasks)]
  /\ \A s \in Scanners :
       (batch[s] = <<>>) <=> (at[s] \in {"tick", "range", "unlock"})

\* What MySQL and Redis store, and what is counted.
StoreOK ==
  /\ done \in [Tasks -> BOOLEAN] /\ assigned \in [Tasks -> BOOLEAN]
  /\ reminder \in [Tasks -> Times \cup {NoTime}]
  /\ setting \in [Tasks -> Times \cup {NoTime}]
  /\ sent \in [Tasks -> Nat] /\ queued \in [Tasks -> Nat]
  /\ armed \in [Tasks -> Nat] /\ owed \in [Tasks -> BOOLEAN]
  /\ overlap \in [Tasks -> BOOLEAN] /\ misread \in [Tasks -> BOOLEAN]
  /\ calls \in Nat /\ rejected \in Nat /\ faults \in Nat /\ overruns \in Nat

TypeOK == Lk!TypeOK /\ now \in 0..MaxTime /\ ScannersOK /\ StoreOK

Init ==
  /\ Lk!Init
  /\ now = 0
  /\ done = [t \in Tasks |-> FALSE] /\ assigned = [t \in Tasks |-> TRUE]
  /\ reminder = [t \in Tasks |-> NoTime] /\ setting = [t \in Tasks |-> NoTime]
  /\ at = [s \in Scanners |-> "tick"]
  /\ cut = [s \in Scanners |-> 0]
  /\ batch = [s \in Scanners |-> <<>>]
  /\ sent = [t \in Tasks |-> 0] /\ queued = [t \in Tasks |-> 0]
  /\ armed = [t \in Tasks |-> 0] /\ owed = [t \in Tasks |-> FALSE]
  /\ overlap = [t \in Tasks |-> FALSE] /\ misread = [t \in Tasks |-> FALSE]
  /\ calls = 0 /\ rejected = 0 /\ faults = 0 /\ overruns = 0

Inc(f, t) == [f EXCEPT ![t] = @ + 1]

\* One more crash, lost reply or error answer, within the bound.
Fault == faults < MaxFaults /\ faults' = faults + 1

\* One more call that changes a task or its reminder, within the bound.
Request == calls < MaxCalls /\ calls' = calls + 1

-----------------------------------------------------------------------------
(* The clock, edits of tasks, and the two operations of the API.            *)

Tick ==
  /\ now < MaxTime
  /\ now' = now + 1
  /\ UNCHANGED <<lockVars, store, scan, output, history>>

\* UpdateStatus and UpdateTask, as far as reminders read them: neither touches
\* task:reminder.
EditTask(t) ==
  /\ Request
  /\ \/ done' = [done EXCEPT ![t] = ~ @] /\ UNCHANGED assigned
     \/ assigned' = [assigned EXCEPT ![t] = ~ @] /\ UNCHANGED done
  /\ UNCHANGED <<lockVars, now, reminder, setting, scan, output,
                 armed, owed, overlap, misread, rejected, faults, overruns>>

\* SetReminder up to its ZADD: the task is not done and remindAt is ahead.
SetReminder(t, remindAt) ==
  /\ Request
  /\ setting[t] = NoTime
  /\ ~ done[t]
  /\ remindAt > now
  /\ setting' = [setting EXCEPT ![t] = remindAt]
  /\ UNCHANGED <<lockVars, now, reminder, done, assigned, scan, output,
                 armed, owed, overlap, misread, rejected, faults, overruns>>

\* Its ZADD, which replaces the score of a reminder that is there.
ZAdd(t) ==
  /\ setting[t] # NoTime
  /\ reminder' = [reminder EXCEPT ![t] = setting[t]]
  /\ setting' = [setting EXCEPT ![t] = NoTime]
  /\ armed' = Inc(armed, t)
  /\ owed' = [owed EXCEPT ![t] = TRUE]
  /\ overlap' = [overlap EXCEPT ![t] = \E s \in Scanners : t \in ToSet(batch[s])]
  /\ misread' = [misread EXCEPT ![t] = FALSE]
  /\ UNCHANGED <<lockVars, now, done, assigned, scan, output,
                 calls, rejected, faults, overruns>>

\* The request dies, or Redis fails, before the ZADD.
SetFails(t) ==
  /\ setting[t] # NoTime
  /\ Fault
  /\ setting' = [setting EXCEPT ![t] = NoTime]
  /\ UNCHANGED <<lockVars, now, reminder, done, assigned, scan, output,
                 armed, owed, overlap, misread, calls, rejected, overruns>>

\* ZREM, whether or not there is a reminder.
CancelReminder(t) ==
  /\ reminder[t] # NoTime
  /\ reminder' = [reminder EXCEPT ![t] = NoTime]
  /\ owed' = [owed EXCEPT ![t] = FALSE]
  /\ UNCHANGED <<lockVars, now, setting, done, assigned, scan, output,
                 armed, overlap, misread, calls, rejected, faults, overruns>>

-----------------------------------------------------------------------------
(* The scanner goroutine: scanDueRemindersWithLock at each tick.            *)

Goto(s, stage) == at' = [at EXCEPT ![s] = stage]

\* ScanDueReminders returns: the rest of the batch is forgotten.
Return(s) ==
  /\ Goto(s, "unlock")
  /\ batch' = [batch EXCEPT ![s] = <<>>]

\* The ticker reads the clock, TryLock answers the lock.
TryLock(s) ==
  /\ at[s] = "tick"
  /\ Lk!TryLock(s)
  /\ cut' = [cut EXCEPT ![s] = now]
  /\ Goto(s, "range")
  /\ UNCHANGED <<batch, now, store, output, history>>

SkipTick(s) ==
  /\ at[s] = "tick"
  /\ Lk!TryLockBusy(s)
  /\ UNCHANGED <<now, store, scan, output, history>>

TryLockReplyLost(s) ==
  /\ at[s] = "tick"
  /\ Fault
  /\ Lk!TryLockReplyLost(s)
  /\ UNCHANGED <<now, store, scan, output,
                 armed, owed, overlap, misread, calls, rejected, overruns>>

Due(time) == {t \in Tasks : reminder[t] # NoTime /\ reminder[t] <= time}

\* The due members by score.  Redis orders members of one score by their names,
\* which may be any order of the tasks.
DueInOrder(time) ==
  {b \in [1..Cardinality(Due(time)) -> Due(time)] :
     \A i, j \in DOMAIN b : i < j => b[i] # b[j] /\ reminder[b[i]] <= reminder[b[j]]}

\* A reading that takes the members out of the set (ZPOPMIN).
ReadDueByPop(s) ==
  /\ at[s] = "range"
  /\ \E due \in DueInOrder(cut[s]) : batch' = [batch EXCEPT ![s] = due]
  /\ reminder' = [t \in Tasks |-> IF t \in Due(cut[s]) THEN NoTime ELSE reminder[t]]
  /\ Goto(s, IF Due(cut[s]) = {} THEN "unlock" ELSE "read")
  /\ UNCHANGED <<lockVars, cut, now, setting, done, assigned, output, history>>

\* ZRANGEBYSCORE task:reminder -inf now: the members stay in the set.
ReadDue(s) ==
  /\ at[s] = "range"
  /\ \E due \in DueInOrder(cut[s]) : batch' = [batch EXCEPT ![s] = due]
  /\ Goto(s, IF Due(cut[s]) = {} THEN "unlock" ELSE "read")
  /\ UNCHANGED <<lockVars, cut, now, store, output, history>>

\* The task is read from MySQL: a done task and one without an assignee get no
\* notification.
ReadTask(s) ==
  /\ at[s] = "read"
  /\ LET t == Handled(s) IN
       \/ /\ done[t] \/ ~ assigned[t]
          /\ owed' = [owed EXCEPT ![t] = FALSE]
          /\ Goto(s, "remove")
       \/ /\ ~ done[t] /\ assigned[t]
          /\ Goto(s, "insert")
          /\ UNCHANGED owed
  /\ UNCHANGED <<lockVars, now, store, cut, batch, output,
                 armed, overlap, misread, calls, rejected, faults, overruns>>

\* The SELECT fails: task.Id stays 0, which is taken for a task that does not exist,
\* before err is looked at.  The reminder is about to go, and nobody was told.
ReadTaskFails(s) ==
  /\ at[s] = "read"
  /\ Fault
  /\ misread' = [misread EXCEPT ![Handled(s)] = TRUE]
  /\ Goto(s, "remove")
  /\ UNCHANGED <<lockVars, now, store, cut, batch, output,
                 armed, owed, overlap, calls, rejected, overruns>>

\* CreateNotification: the INSERT answers an id.
InsertOK(s) ==
  /\ at[s] = "insert"
  /\ sent' = Inc(sent, Handled(s))
  /\ owed' = [owed EXCEPT ![Handled(s)] = FALSE]
  /\ Goto(s, "announce")
  /\ UNCHANGED <<lockVars, now, store, cut, batch, queued,
                 armed, overlap, misread, calls, rejected, faults, overruns>>

\* It answers an error and MySQL has no row.
InsertRejected(s) ==
  /\ at[s] = "insert"
  /\ rejected < MaxRejects
  /\ rejected' = rejected + 1
  /\ Goto(s, "enqueue")
  /\ UNCHANGED <<lockVars, now, store, cut, batch, output,
                 armed, owed, overlap, misread, calls, faults, overruns>>

\* It answers an error although MySQL committed the row.
InsertReplyLost(s) ==
  /\ at[s] = "insert"
  /\ Fault
  /\ sent' = Inc(sent, Handled(s))
  /\ owed' = [owed EXCEPT ![Handled(s)] = FALSE]
  /\ Goto(s, "enqueue")
  /\ UNCHANGED <<lockVars, now, store, cut, batch, queued,
                 armed, overlap, misread, calls, rejected, overruns>>

\* CreateNotification queues the payload and still answers the error: the scan
\* returns it, the reminder stays for the next scan.
Enqueue(s) ==
  /\ at[s] = "enqueue"
  /\ queued' = Inc(queued, Handled(s))
  /\ owed' = [owed EXCEPT ![Handled(s)] = FALSE]
  /\ Return(s)
  /\ UNCHANGED <<lockVars, now, store, cut, sent,
                 armed, overlap, misread, calls, rejected, faults, overruns>>

\* Its SADD to the unread set.
Announce(s) ==
  /\ at[s] = "announce"
  /\ Goto(s, "remove")
  /\ UNCHANGED <<lockVars, now, store, cut, batch, output, history>>

\* The notification is there, the member is left for the next scan.
KeepReminder(s) ==
  /\ at[s] = "remove"
  /\ batch' = [batch EXCEPT ![s] = Tail(@)]
  /\ Goto(s, IF Len(batch[s]) = 1 THEN "unlock" ELSE "read")
  /\ UNCHANGED <<lockVars, now, store, cut, output, history>>

\* removeTaskReminder: ZREM by member, whatever its score is by now.
RemoveReminder(s) ==
  /\ at[s] = "remove"
  /\ reminder' = [reminder EXCEPT ![Handled(s)] = NoTime]
  /\ batch' = [batch EXCEPT ![s] = Tail(@)]
  /\ Goto(s, IF Len(batch[s]) = 1 THEN "unlock" ELSE "read")
  /\ UNCHANGED <<lockVars, now, setting, done, assigned, cut, output, history>>

\* The ZREM takes effect, its reply is lost: the scan returns the error.
RemoveReplyLost(s) ==
  /\ at[s] = "remove"
  /\ Fault
  /\ reminder' = [reminder EXCEPT ![Handled(s)] = NoTime]
  /\ Return(s)
  /\ UNCHANGED <<lockVars, now, setting, done, assigned, cut, output,
                 armed, owed, overlap, misread, calls, rejected, overruns>>

Unlock(s) ==
  /\ at[s] = "unlock"
  /\ Lk!Unlock(s)
  /\ Goto(s, "tick")
  /\ UNCHANGED <<now, store, cut, batch, output, history>>

\* A Redis error: the scan returns it and the deferred Unlock still runs.  The
\* errors of MySQL go elsewhere, see ReadTaskFails and InsertRejected.
ReturnError(s) ==
  /\ at[s] \in {"range", "enqueue", "announce", "remove"}
  /\ Fault
  /\ Return(s)
  /\ UNCHANGED <<lockVars, now, store, cut, output,
                 armed, owed, overlap, misread, calls, rejected, overruns>>

\* The instance dies and is started again, or the script of Unlock fails.
Crash(s) ==
  /\ at[s] # "tick"
  /\ Fault
  /\ Lk!Abandon(s)
  /\ Goto(s, "tick")
  /\ batch' = [batch EXCEPT ![s] = <<>>]
  /\ UNCHANGED <<now, store, cut, output,
                 armed, owed, overlap, misread, calls, rejected, overruns>>

\* The TTL of 4 seconds runs out; an overrun if a scanner is still at work.
LockExpires ==
  /\ Lk!Expire
  /\ overruns' = IF \E s \in Scanners : Lk!Holds(s) THEN 1 ELSE overruns
  /\ UNCHANGED <<now, store, scan, output,
                 armed, owed, overlap, misread, calls, rejected, faults>>

-----------------------------------------------------------------------------
UserStep(t) ==
  \/ EditTask(t)
  \/ \E remindAt \in Times : SetReminder(t, remindAt)
  \/ ZAdd(t) \/ SetFails(t) \/ CancelReminder(t)

ScanStep(s) ==
  \/ TryLock(s) \/ SkipTick(s)
  \/ ReadDue(s) \/ ReadTask(s)
  \/ InsertOK(s) \/ InsertRejected(s)
  \/ Announce(s) \/ Enqueue(s) \/ RemoveReminder(s)
  \/ Unlock(s)

ScanFault(s) ==
  \/ TryLockReplyLost(s) \/ ReadTaskFails(s) \/ InsertReplyLost(s)
  \/ RemoveReplyLost(s) \/ ReturnError(s) \/ Crash(s)

Next ==
  \/ Tick
  \/ \E t \in Tasks : UserStep(t)
  \/ \E s \in Scanners : ScanStep(s) \/ ScanFault(s)
  \/ LockExpires

Spec == Init /\ [][Next]_vars

\* Time passes, tickers fire and goroutines go on, Redis expires the lock.
\* MySQL does not reject for ever because of the bound MaxRejects.
Fairness ==
  /\ WF_vars(Tick)
  /\ \A s \in Scanners : WF_vars(ScanStep(s))
  /\ WF_vars(LockExpires)

FairSpec == Spec /\ Fairness

-----------------------------------------------------------------------------
(* Properties                                                               *)

Scanning(s) == at[s] # "tick"

\* The scanner lock keeps a second instance out, whatever crashes and whichever
\* replies are lost, until a scan takes longer than its lease of 4 seconds
\* (remind.go scanDueRemindersWithLock).
OneScanner ==
  overruns = 0 =>
    \A s, u \in Scanners : Scanning(s) /\ Scanning(u) => s = u

\* owed[t]: since the last ZADD of t there was no notification, no payload for
\* the retry queue, no cancellation and no scan that found t done or unassigned.
\* Such a reminder is still in the set, whatever crashes, whichever replies of
\* Redis and errors of the INSERT there are, and with two scanners at a time.  Two
\* ways lose it.  It was set again after a scanner had read its batch (overlap):
\* the ZREM of that scan, which does not look at the score, takes the new reminder
\* away.  Or the SELECT of its task failed in a scan (misread), which removes it
\* like the reminder of a task that does not exist.
ReminderKept ==
  \A t \in Tasks : owed[t] => reminder[t] # NoTime \/ overlap[t] \/ misread[t]

\* Unless a scan outlives its lease, dies or gets an error half-way, setting a
\* reminder leads to one notification at the most; a rejected INSERT adds one,
\* because its payload is queued and its reminder stays.
NotifiedAtMostOnce ==
  faults = 0 /\ overruns = 0 =>
    \A t \in Tasks : sent[t] + queued[t] <= armed[t] + rejected

\* Every reminder comes to its end: after its time a scanner finds and removes
\* it, although others crashed, left the lock behind or stopped half-way.
RemindersEnd == \A t \in Tasks : (reminder[t] # NoTime) ~> (reminder[t] = NoTime)

\* What README.MD:103 says: the reminder is removed after its notification was
\* created, so that it is not lost.  (A reminder set again during a scan is not
\* what it speaks of.)
RemovedOnlyAfterNotice ==
  \A t \in Tasks : owed[t] => reminder[t] # NoTime \/ overlap[t]

\* What docs/PROJECT_ROADMAP.md:913 says: scanning again does not notify again.
RescanNotifiesOnce == \A t \in Tasks : sent[t] + queued[t] <= armed[t]
=============================================================================
