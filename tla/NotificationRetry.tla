-------------------------- MODULE NotificationRetry --------------------------
(***************************************************************************)
(* The notification retry queue of internal/logic/notification:            *)
(* CreateNotification (notification.go), which hands a notification whose  *)
(* INSERT failed to a Redis list, and the retry workers (retry.go), which  *)
(* move one payload at a time through a processing list and insert it      *)
(* again, until it is stored or dead.                                      *)
(*                                                                         *)
(* A step is one round trip to Redis or MySQL.  Between two steps another  *)
(* call, another instance's worker, an expiry of the worker lock, a crash  *)
(* or an error answer may come.                                            *)
(***************************************************************************)
EXTENDS Naturals, Sequences, FiniteSets, SequencesExt

CONSTANTS
  Notices,      \* notifications, told apart by receiver, actor, type, content
                \* and task; receiver # actor, so that a row is wanted
  Workers,      \* the retry goroutine of each running instance
  Tokens, NoToken,  \* values of the worker lock, see DistLock
  NoPayload,    \* "the worker holds no message"
  MaxCount,     \* notificationRetryMaxCount
  MaxCalls,     \* bound: CreateNotification calls per notification
  MaxFaults,    \* bound: crashes, lost replies and error answers
  MaxRecovers   \* bound: recovered messages per notification

Payload == [notice : Notices, retryCount : Nat]

\* notificationRetryMaxCount is 3; NoPayload is not a message; a cluster has
\* finitely many workers.
ASSUME MaxCountAssumption == MaxCount \in Nat
ASSUME PayloadAssumption == NoPayload \notin Payload
ASSUME WorkersAssumption == IsFiniteSet(Workers)

VARIABLES
  key, lock,    \* lock:notification:retry:worker and each worker's *Lock
  queue,        \* notification:retry:queue
  processing,   \* notification:retry:processing
  dead,         \* notification:retry:dead
  rows,         \* rows[n]: rows of n in the MySQL notification table
  unread,       \* unread[n]: ids of those rows SADDed to notification:unread
  inserting, enqueuing, announcing,
                \* per notification, the CreateNotification calls before their
                \* INSERT, before their RPUSH and before their SADD
  at,           \* at[w]: the next round trip of worker w
  raw,          \* raw[w]: the message w took from the queue
  requested, unsaved, dropped, replayed, rejected, faults
                \* history, read by properties and bounds only (see below)

lockVars == <<key, lock>>
lists    == <<queue, processing, dead>>
tables   == <<rows, unread>>
calls    == <<inserting, enqueuing, announcing>>
workers  == <<at, raw>>
history  == <<requested, unsaved, dropped, replayed, rejected, faults>>
vars     == <<lockVars, lists, tables, calls, workers, history>>

Lk == INSTANCE DistLock WITH Clients <- Workers

Stages == {"tick", "dequeue", "create", "ackDone", "announce", "ackFailed",
           "requeue", "unlock"}

Counts == [Notices -> Nat]

\* A worker has a message in hand from its LMOVE to the end of its tick.
WorkersOK ==
  /\ at \in [Workers -> Stages]
  /\ raw \in [Workers -> Payload \cup {NoPayload}]
  /\ \A w \in Workers :
       (raw[w] = NoPayload) <=> (at[w] \in {"tick", "dequeue", "unlock"})

TypeOK ==
  /\ Lk!TypeOK
  /\ queue \in Seq(Payload) /\ processing \in Seq(Payload) /\ dead \in Seq(Payload)
  /\ rows \in Counts /\ unread \in Counts
  /\ inserting \in Counts /\ enqueuing \in Counts /\ announcing \in Counts
  /\ WorkersOK
  /\ requested \in Counts /\ unsaved \in Counts /\ dropped \in Counts
  /\ replayed \in Counts /\ rejected \in Counts /\ faults \in Nat

None == [n \in Notices |-> 0]

Init ==
  /\ Lk!Init
  /\ queue = <<>> /\ processing = <<>> /\ dead = <<>>
  /\ rows = None /\ unread = None
  /\ inserting = None /\ enqueuing = None /\ announcing = None
  /\ at = [w \in Workers |-> "tick"]
  /\ raw = [w \in Workers |-> NoPayload]
  /\ requested = None /\ unsaved = None /\ dropped = None
  /\ replayed = None /\ rejected = None /\ faults = 0

Inc(f, n) == [f EXCEPT ![n] = @ + 1]
Dec(f, n) == [f EXCEPT ![n] = @ - 1]

\* One more crash, lost reply or error answer, within the bound.
Fault == faults < MaxFaults /\ faults' = faults + 1

-----------------------------------------------------------------------------
(* CreateNotification(n), called by the task, comment and reminder logic.   *)

Call(n) ==
  /\ requested[n] < MaxCalls
  /\ requested' = Inc(requested, n)
  /\ inserting' = Inc(inserting, n)
  /\ UNCHANGED <<lockVars, lists, tables, workers, enqueuing, announcing,
                 unsaved, dropped, replayed, rejected, faults>>

\* CreateNotificationRecord answers the id of the new row.
InsertOK(n) ==
  /\ inserting[n] > 0
  /\ inserting' = Dec(inserting, n)
  /\ announcing' = Inc(announcing, n)
  /\ rows' = Inc(rows, n)
  /\ UNCHANGED <<lockVars, lists, workers, unread, enqueuing, history>>

\* It answers an error and MySQL has no row.
InsertRejected(n) ==
  /\ inserting[n] > 0
  /\ inserting' = Dec(inserting, n)
  /\ enqueuing' = Inc(enqueuing, n)
  /\ UNCHANGED <<lockVars, lists, tables, workers, announcing, history>>

\* It answers an error although MySQL committed the row: the reply, or
\* LastInsertId, failed.
InsertReplyLost(n) ==
  /\ inserting[n] > 0
  /\ Fault
  /\ inserting' = Dec(inserting, n)
  /\ enqueuing' = Inc(enqueuing, n)
  /\ rows' = Inc(rows, n)
  /\ replayed' = Inc(replayed, n)
  /\ UNCHANGED <<lockVars, lists, workers, unread, announcing,
                 requested, unsaved, dropped, rejected>>

\* AddUnreadNotificationToRedis: SADD of the new row's id.
Announce(n) ==
  /\ announcing[n] > 0
  /\ announcing' = Dec(announcing, n)
  /\ unread' = Inc(unread, n)
  /\ UNCHANGED <<lockVars, lists, workers, rows, inserting, enqueuing, history>>

\* EnqueueNotificationRetry with RetryCount 0; the caller gets the error.
Enqueue(n) ==
  /\ enqueuing[n] > 0
  /\ enqueuing' = Dec(enqueuing, n)
  /\ queue' = Append(queue, [notice |-> n, retryCount |-> 0])
  /\ UNCHANGED <<lockVars, processing, dead, tables, workers, inserting,
                 announcing, history>>

\* The calling instance dies, or Redis fails, at one of the three stages.
CallFails(n) ==
  /\ Fault
  /\ \/ /\ inserting[n] > 0 /\ inserting' = Dec(inserting, n)
        /\ unsaved' = Inc(unsaved, n)
        /\ UNCHANGED <<enqueuing, announcing>>
     \/ /\ enqueuing[n] > 0 /\ enqueuing' = Dec(enqueuing, n)
        /\ unsaved' = Inc(unsaved, n)
        /\ UNCHANGED <<inserting, announcing>>
     \/ /\ announcing[n] > 0 /\ announcing' = Dec(announcing, n)
        /\ UNCHANGED <<inserting, enqueuing, unsaved>>
  /\ UNCHANGED <<lockVars, lists, tables, workers, requested, dropped,
                 replayed, rejected>>

-----------------------------------------------------------------------------
(* The worker goroutine: processOneNotificationRetryWithLock at each tick,   *)
(* which runs ProcessOneNotificationRetry under the worker lock.             *)

Goto(w, stage) == at' = [at EXCEPT ![w] = stage]

\* Done(w, stage): the message is finished with, w goes on to stage.
Done(w, stage) ==
  /\ at' = [at EXCEPT ![w] = stage]
  /\ raw' = [raw EXCEPT ![w] = NoPayload]

TryLock(w) ==
  /\ at[w] = "tick"
  /\ Lk!TryLock(w)
  /\ Goto(w, "dequeue")
  /\ UNCHANGED <<raw, lists, tables, calls, history>>

\* The lock is held by another instance: skip this tick.
SkipTick(w) ==
  /\ at[w] = "tick"
  /\ Lk!TryLockBusy(w)
  /\ UNCHANGED <<workers, lists, tables, calls, history>>

TryLockReplyLost(w) ==
  /\ at[w] = "tick"
  /\ Fault
  /\ Lk!TryLockReplyLost(w)
  /\ UNCHANGED <<workers, lists, tables, calls,
                 requested, unsaved, dropped, replayed, rejected>>

\* The consumption that LMOVE replaced: LPOP, nothing stays in processing.
DequeueByLPop(w) ==
  /\ at[w] = "dequeue"
  /\ queue # <<>>
  /\ queue' = Tail(queue)
  /\ raw' = [raw EXCEPT ![w] = Head(queue)]
  /\ Goto(w, "create")
  /\ UNCHANGED <<lockVars, processing, dead, tables, calls, history>>

\* dequeueNotificationRetryMessage: LMOVE queue processing LEFT RIGHT.
Dequeue(w) ==
  /\ at[w] = "dequeue"
  /\ queue # <<>>
  /\ queue' = Tail(queue)
  /\ processing' = Append(processing, Head(queue))
  /\ raw' = [raw EXCEPT ![w] = Head(queue)]
  /\ Goto(w, "create")
  /\ UNCHANGED <<lockVars, dead, tables, calls, history>>

\* LMOVE answers nil: nothing to do.
DequeueEmpty(w) ==
  /\ at[w] = "dequeue"
  /\ queue = <<>>
  /\ Goto(w, "unlock")
  /\ UNCHANGED <<raw, lockVars, lists, tables, calls, history>>

\* CreateNotificationRecord answers an id.
CreateOK(w) ==
  /\ at[w] = "create"
  /\ rows' = Inc(rows, raw[w].notice)
  /\ Goto(w, "ackDone")
  /\ UNCHANGED <<raw, lockVars, lists, unread, calls, history>>

\* CreateNotification instead of CreateNotificationRecord: its own failure
\* path enqueues as well (the worker the roadmap says was replaced).
CreateRejectedEnqueues(w) ==
  /\ at[w] = "create"
  /\ rejected' = Inc(rejected, raw[w].notice)
  /\ queue' = Append(queue, [notice |-> raw[w].notice, retryCount |-> 0])
  /\ Goto(w, "ackFailed")
  /\ UNCHANGED <<raw, lockVars, processing, dead, tables, calls,
                 requested, unsaved, dropped, replayed, faults>>

\* It answers an error and MySQL has no row.
CreateRejected(w) ==
  /\ at[w] = "create"
  /\ rejected' = Inc(rejected, raw[w].notice)
  /\ Goto(w, "ackFailed")
  /\ UNCHANGED <<raw, lockVars, lists, tables, calls,
                 requested, unsaved, dropped, replayed, faults>>

\* It answers an error although MySQL committed the row.
CreateReplyLost(w) ==
  /\ at[w] = "create"
  /\ Fault
  /\ rows' = Inc(rows, raw[w].notice)
  /\ replayed' = Inc(replayed, raw[w].notice)
  /\ rejected' = Inc(rejected, raw[w].notice)
  /\ Goto(w, "ackFailed")
  /\ UNCHANGED <<raw, lockVars, lists, unread, calls, requested, unsaved, dropped>>

\* ackNotificationRetryMessage: LREM processing 1 raw, after the INSERT.
AckDone(w) ==
  /\ at[w] = "ackDone"
  /\ processing' = RemoveFirst(processing, raw[w])
  /\ Goto(w, "announce")
  /\ UNCHANGED <<raw, lockVars, queue, dead, tables, calls, history>>

\* The row exists but its id is not added.
AnnounceNothing(w) ==
  /\ at[w] = "announce"
  /\ Done(w, "unlock")
  /\ UNCHANGED <<lockVars, lists, tables, calls, history>>

\* AddUnreadNotificationToRedis after the acknowledgement.
AnnounceRetried(w) ==
  /\ at[w] = "announce"
  /\ unread' = Inc(unread, raw[w].notice)
  /\ Done(w, "unlock")
  /\ UNCHANGED <<lockVars, lists, rows, calls, history>>

\* The same LREM on the failure path, before the message is queued again.
AckFailed(w) ==
  /\ at[w] = "ackFailed"
  /\ processing' = RemoveFirst(processing, raw[w])
  /\ Goto(w, "requeue")
  /\ UNCHANGED <<raw, lockVars, queue, dead, tables, calls, history>>

Retried(p) == [notice |-> p.notice, retryCount |-> p.retryCount + 1]

\* The old payload goes back, its RetryCount is never increased.
RequeueUncounted(w) ==
  /\ at[w] = "requeue"
  /\ queue' = Append(queue, raw[w])
  /\ Done(w, "unlock")
  /\ UNCHANGED <<lockVars, processing, dead, tables, calls, history>>

\* RetryCount++, then RPUSH to the queue while it is <= MaxCount, to the dead
\* list after that.
Requeue(w) ==
  /\ at[w] = "requeue"
  /\ LET p == Retried(raw[w]) IN
       \/ /\ p.retryCount <= MaxCount
          /\ queue' = Append(queue, p) /\ UNCHANGED dead
       \/ /\ p.retryCount > MaxCount
          /\ dead' = Append(dead, p) /\ UNCHANGED queue
  /\ Done(w, "unlock")
  /\ UNCHANGED <<lockVars, processing, tables, calls, history>>

\* The deferred Unlock, and the goroutine waits for its next tick.
Unlock(w) ==
  /\ at[w] = "unlock"
  /\ Lk!Unlock(w)
  /\ Goto(w, "tick")
  /\ UNCHANGED <<raw, lists, tables, calls, history>>

\* What a worker takes with it when it stops before its RPUSH.
DropHeld(w) ==
  dropped' = IF at[w] = "requeue" THEN Inc(dropped, raw[w].notice) ELSE dropped

\* A Redis or MySQL error at this round trip, or after the previous one took
\* effect: the function returns err and the deferred Unlock still runs.
ReturnError(w) ==
  /\ at[w] \notin {"tick", "unlock"}
  /\ Fault
  /\ Done(w, "unlock")
  /\ DropHeld(w)
  /\ UNCHANGED <<lockVars, lists, tables, calls, requested, unsaved, replayed, rejected>>

\* The instance dies and is started again, or the script of Unlock fails: the
\* lock stays in Redis until its TTL.
Crash(w) ==
  /\ at[w] # "tick"
  /\ Fault
  /\ Lk!Abandon(w)
  /\ Done(w, "tick")
  /\ DropHeld(w)
  /\ UNCHANGED <<lists, tables, calls, requested, unsaved, replayed, rejected>>

\* The TTL of 4 seconds runs out, whether or not the holder is done.
LockExpires ==
  /\ Lk!Expire
  /\ UNCHANGED <<workers, lists, tables, calls, history>>

\* One LMOVE of RecoverProcessingNotificationRetries, which an operator runs by
\* hand: it does not look whether a worker is still busy with the message.
Recover ==
  /\ processing # <<>>
  /\ LET n == Head(processing).notice IN
       /\ replayed[n] < MaxRecovers
       /\ replayed' = Inc(replayed, n)
  /\ processing' = Tail(processing)
  /\ queue' = Append(queue, Head(processing))
  /\ UNCHANGED <<lockVars, dead, tables, calls, workers,
                 requested, unsaved, dropped, rejected, faults>>

-----------------------------------------------------------------------------
CallStep(n) ==
  \/ Call(n) \/ InsertOK(n) \/ InsertRejected(n) \/ InsertReplyLost(n)
  \/ Announce(n) \/ Enqueue(n) \/ CallFails(n)

\* The round trips of one tick, in the order of the code.
WorkerStep(w) ==
  \/ TryLock(w) \/ SkipTick(w)
  \/ Dequeue(w) \/ DequeueEmpty(w)
  \/ CreateOK(w) \/ CreateRejected(w)
  \/ AckDone(w) \/ AnnounceRetried(w)
  \/ AckFailed(w) \/ Requeue(w)
  \/ Unlock(w)

WorkerFault(w) ==
  \/ TryLockReplyLost(w) \/ CreateReplyLost(w) \/ ReturnError(w) \/ Crash(w)

Next ==
  \/ \E n \in Notices : CallStep(n)
  \/ \E w \in Workers : WorkerStep(w) \/ WorkerFault(w)
  \/ LockExpires
  \/ Recover

Spec == Init /\ [][Next]_vars

\* Each instance's ticker fires for ever and its goroutine goes through the
\* round trips; Redis expires the lock.  Nothing is assumed of callers, of the
\* operator, or of whether an INSERT succeeds.
Fairness ==
  /\ \A w \in Workers : WF_vars(WorkerStep(w))
  /\ WF_vars(LockExpires)

FairSpec == Spec /\ Fairness
-----------------------------------------------------------------------------
(* Properties                                                               *)

\* How many messages about n list s holds, and how many workers have such a
\* message in hand at one of the given stages.
Copies(s, n) == Cardinality({i \in DOMAIN s : s[i].notice = n})
Holding(n, stages) == {w \in Workers : at[w] \in stages /\ raw[w].notice = n}
Held(n, stages) == Cardinality(Holding(n, stages))

\* Where the outcome of a CreateNotification call can still be found.
Traceable(n) ==
  inserting[n] + enqueuing[n]
    + Copies(queue, n) + Copies(processing, n) + Copies(dead, n)
    + Held(n, {"requeue"}) + rows[n]

\* At least once.  Every CreateNotification call is still running, queued, in
\* processing, dead, in a worker's hand or stored as a row of its own; what is
\* missing is counted: the caller failed before its RPUSH (unsaved), or a worker
\* stopped between its LREM and its RPUSH (dropped).  It holds whatever crashes,
\* expires or is recovered, although LREM removes by value and identical
\* payloads may be queued (retry.go ProcessOneNotificationRetry).
NothingLost ==
  \A n \in Notices : requested[n] <= Traceable(n) + unsaved[n] + dropped[n]

\* At most once.  A call yields one row at the most, except that each message
\* an operator recovers and each INSERT whose reply was lost may add one.  The
\* worker lock is not needed for this: LMOVE hands a message to one worker.
AtMostOnce == \A n \in Notices : rows[n] <= requested[n] + replayed[n]

\* A message is dead only when its INSERT failed MaxCount + 1 times in a worker,
\* and it says so (retry_test.go, MovesExceededRetryToDeadQueue); and a failing
\* notification costs MaxCount + 1 attempts at the most for each time it was
\* enqueued or replayed: retries do not feed on themselves, which they did while
\* the worker called CreateNotification.
RetryLimitKept ==
  /\ \A i \in DOMAIN dead :
       /\ dead[i].retryCount = MaxCount + 1
       /\ rejected[dead[i].notice] > MaxCount
  /\ \A n \in Notices :
       rejected[n] <= (MaxCount + 1) * (requested[n] + replayed[n])

\* As long as nothing crashed or answered an error late, the unread set gets
\* the id of every row, and of nothing else, once the call or the worker that
\* inserted it is through (the SADD comes after INSERT and LREM).
UnreadComplete ==
  faults = 0 =>
    \A n \in Notices :
      rows[n] = unread[n] + announcing[n] + Held(n, {"ackDone", "announce"})

\* The queue becomes empty for good once calls and recoveries stop, although
\* every INSERT may fail, workers crash and a dead worker's lease blocks the
\* others until its TTL.  Without crashes and errors the processing list is
\* emptied too: nobody has to run the manual recovery.
QueueDrains ==
  /\ <>[](queue = <<>>)
  /\ [](faults = 0) => <>[](processing = <<>>)

\* What docs/PROJECT_ROADMAP.md:1203 says of the worker: a message is not lost
\* when the worker dies after taking it or when a retry fails.
WorkerLosesNothing ==
  \A n \in Notices : requested[n] <= Traceable(n) + unsaved[n]
=============================================================================
