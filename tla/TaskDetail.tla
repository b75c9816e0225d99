----------------------------- MODULE TaskDetail -----------------------------
(***************************************************************************)
(* The task detail cache of internal/logic/task/task.go, for one task:     *)
(* its MySQL row, the Redis key task:detail:{id}, GetTask (cache aside,    *)
(* "__NULL__" for a missing row, rebuilding under a lock and, for those    *)
(* that do not get the lock, a pause and a second look), and CreateTask,   *)
(* UpdateTask and UpdateStatus, which change the row.                      *)
(*                                                                         *)
(* The content of the row is its version: 0 before the task exists, then   *)
(* one more with every change.  A step is one round trip.                  *)
(***************************************************************************)
EXTENDS Naturals

CONSTANTS
  Readers,      \* goroutines that serve GetTask, of any instance
  Writers,      \* goroutines that serve UpdateTask and UpdateStatus
  Tokens, NoToken,  \* values of the rebuild lock, see DistLock
  NoEntry,      \* GET answers nil; also "no answer"
  MaxVersion,   \* bound: changes of the row
  MaxFaults     \* bound: crashes, lost replies and error answers

Versions == 0..MaxVersion

ASSUME EntryAssumption ==
  NoEntry \notin Nat /\ MaxVersion \in Nat /\ Readers \cap Writers = {}

VARIABLES
  key, lock,    \* lock:task:detail:{id} and the *Lock of each reader
  row,          \* the version of the MySQL row
  cache,        \* the version in task:detail:{id}; 0 is "__NULL__"
  at,           \* at[p]: the next round trip of reader or writer p
  task,         \* task[r]: the version r read, its answer when it is done
  settled,      \* history: the row when last no update was on its way
  floor,        \* history: floor[r] is settled when r's request began
  overtaken,    \* history: readers whose version is older than a DEL, done or
                \* failed, that came after their query or was in the entry they hit
  tainted,      \* history: the entry outlived such a DEL, or came after it
  faults        \* history: how many faults there were

lockVars == <<key, lock>>
history  == <<settled, floor, overtaken, tainted, faults>>
vars     == <<lockVars, row, cache, at, task, history>>

Lk == INSTANCE DistLock WITH Clients <- Readers

ReaderStages == {"idle", "tryLock", "sleep", "query", "setex", "unlock", "done"}
WriterStages == {"idle", "del"}

\* A reader has a version from its query or its hit to the end, and the lock
\* at most while it rebuilds.
TypeOK ==
  /\ Lk!TypeOK
  /\ row \in Versions /\ cache \in Versions \cup {NoEntry}
  /\ at \in [Readers \cup Writers -> ReaderStages \cup WriterStages]
  /\ \A r \in Readers : at[r] \in ReaderStages
  /\ \A w \in Writers : at[w] \in WriterStages
  /\ task \in [Readers -> Versions \cup {NoEntry}]
  /\ \A r \in Readers :
       /\ (task[r] # NoEntry) <=> (at[r] \in {"setex", "unlock", "done"})
       /\ lock[r] # NoToken => at[r] \in {"query", "setex", "unlock"}
  /\ settled \in Versions /\ floor \in [Readers -> Versions]
  /\ overtaken \subseteq Readers /\ (tainted => cache # NoEntry) /\ faults \in Nat

Init ==
  /\ Lk!Init
  /\ row = 0 /\ cache = NoEntry
  /\ at = [p \in Readers \cup Writers |-> "idle"]
  /\ task = [r \in Readers |-> NoEntry]
  /\ settled = 0 /\ floor = [r \in Readers |-> 0]
  /\ overtaken = {} /\ tainted = FALSE /\ faults = 0

Goto(p, stage) == at' = [at EXCEPT ![p] = stage]

\* One more crash, lost reply or error answer, within the bound.
Fault == faults < MaxFaults /\ faults' = faults + 1

-----------------------------------------------------------------------------
(* GetTask.                                                                 *)

\* r gets version v and goes on to stage.
Gets(r, v, stage) ==
  /\ task' = [task EXCEPT ![r] = v]
  /\ Goto(r, stage)

\* r's request is over.
Ends(r) ==
  /\ Gets(r, NoEntry, "idle")
  /\ floor' = [floor EXCEPT ![r] = 0]
  /\ overtaken' = overtaken \ {r}

\* The answer of r is the entry.
Hits(r) ==
  /\ cache # NoEntry
  /\ Gets(r, cache, "done")
  /\ overtaken' = IF tainted THEN overtaken \cup {r} ELSE overtaken

\* getTaskFromCache, first: a hit is the answer ("__NULL__": no such task).
GetHit(r) ==
  /\ at[r] = "idle"
  /\ Hits(r)
  /\ floor' = [floor EXCEPT ![r] = settled]
  /\ UNCHANGED <<lockVars, row, cache, settled, tainted, faults>>

GetMiss(r) ==
  /\ at[r] = "idle"
  /\ cache = NoEntry
  /\ Goto(r, "tryLock")
  /\ floor' = [floor EXCEPT ![r] = settled]
  /\ UNCHANGED <<lockVars, row, cache, task, settled, overtaken, tainted, faults>>

TryLock(r) ==
  /\ at[r] = "tryLock"
  /\ Lk!TryLock(r)
  /\ Goto(r, "query")
  /\ UNCHANGED <<row, cache, task, history>>

\* Someone else rebuilds: sleep 50 ms.
TryLockBusy(r) ==
  /\ at[r] = "tryLock"
  /\ Lk!TryLockBusy(r)
  /\ Goto(r, "sleep")
  /\ UNCHANGED <<row, cache, task, history>>

TryLockReplyLost(r) ==
  /\ at[r] = "tryLock"
  /\ Fault
  /\ Lk!TryLockReplyLost(r)
  /\ Ends(r)
  /\ UNCHANGED <<row, cache, settled, tainted>>

\* getTaskFromCache again, after the pause.
SecondHit(r) ==
  /\ at[r] = "sleep"
  /\ Hits(r)
  /\ UNCHANGED <<lockVars, row, cache, settled, floor, tainted, faults>>

\* Still nothing: r queries MySQL without the lock.
SecondMiss(r) ==
  /\ at[r] = "sleep"
  /\ cache = NoEntry
  /\ Goto(r, "query")
  /\ UNCHANGED <<lockVars, row, cache, task, history>>

\* getTaskFromDBAndCache: SELECT.
Query(r) ==
  /\ at[r] = "query"
  /\ Gets(r, row, "setex")
  /\ UNCHANGED <<lockVars, row, cache, history>>

Fills(r) ==
  /\ cache' = task[r]
  /\ tainted' = (r \in overtaken)

\* Its SETEX of what the query answered, the task or "__NULL__".
SetEx(r) ==
  /\ at[r] = "setex"
  /\ Fills(r)
  /\ Goto(r, IF lock[r] = NoToken THEN "done" ELSE "unlock")
  /\ UNCHANGED <<lockVars, row, task, settled, floor, overtaken, faults>>

\* The deferred Unlock.
Unlock(r) ==
  /\ at[r] = "unlock"
  /\ Lk!Unlock(r)
  /\ Goto(r, "done")
  /\ UNCHANGED <<row, cache, task, history>>

\* The answer was sent; the goroutine takes another request.
Answered(r) ==
  /\ at[r] = "done"
  /\ Ends(r)
  /\ UNCHANGED <<lockVars, row, cache, settled, tainted, faults>>

\* Redis or MySQL fails at this round trip, or after the previous one took
\* effect, or the instance dies: the lock, if any, is released or left behind.
Fails(r) ==
  /\ at[r] \notin {"idle", "done"}
  /\ Fault
  /\ \/ lock[r] = NoToken /\ UNCHANGED lockVars
     \/ Lk!Unlock(r)
     \/ Lk!Abandon(r)
  /\ Ends(r)
  /\ UNCHANGED <<row, cache, settled, tainted>>

-----------------------------------------------------------------------------
(* The row and its invalidation.                                            *)

\* CreateTask inserts the row and leaves task:detail:{id} alone.
CreateTask ==
  /\ row = 0
  /\ row < MaxVersion
  /\ row' = 1
  /\ settled' = 1
  /\ UNCHANGED <<lockVars, cache, at, task, floor, overtaken, tainted, faults>>

\* UPDATE by UpdateTask or UpdateStatus, when something changes.
Update(w) ==
  /\ at[w] = "idle"
  /\ row > 0
  /\ row < MaxVersion
  /\ row' = row + 1
  /\ Goto(w, "del")
  /\ UNCHANGED <<lockVars, cache, task, history>>

\* The readers about to cache a row from before this DEL.
Fillers == {r \in Readers : at[r] = "setex" /\ task[r] < row}

\* An update that forgets deleteTaskDetailCache.
DelForgotten(w) ==
  /\ at[w] = "del"
  /\ Goto(w, "idle")
  /\ settled' = row
  /\ UNCHANGED <<lockVars, row, cache, task, floor, overtaken, tainted, faults>>

\* deleteTaskDetailCache, the last thing that concerns the cache.
Del(w) ==
  /\ at[w] = "del"
  /\ cache' = NoEntry
  /\ Goto(w, "idle")
  /\ settled' = IF \E u \in Writers \ {w} : at[u] = "del" THEN settled ELSE row
  /\ overtaken' = overtaken \cup Fillers
  /\ tainted' = FALSE
  /\ UNCHANGED <<lockVars, row, task, floor, faults>>

\* The DEL fails, or the instance dies before it: the row stays changed.
DelFails(w) ==
  /\ at[w] = "del"
  /\ Fault
  /\ Goto(w, "idle")
  /\ overtaken' = overtaken \cup Fillers
  /\ tainted' = (cache # NoEntry)
  /\ UNCHANGED <<lockVars, row, cache, task, settled, floor>>

\* A task is not cached with a time to live.
CacheNeverExpires == FALSE /\ UNCHANGED vars

\* The TTL of the entry: 60 s for "__NULL__", 5 to 6 minutes for a task.
CacheExpires ==
  /\ cache # NoEntry
  /\ cache' = NoEntry
  /\ tainted' = FALSE
  /\ UNCHANGED <<lockVars, row, at, task, settled, floor, overtaken, faults>>

LockExpires ==
  /\ Lk!Expire
  /\ UNCHANGED <<row, cache, at, task, history>>

-----------------------------------------------------------------------------
\* A request on its way, once it has begun.
ReadStep(r) ==
  \/ TryLock(r) \/ TryLockBusy(r)
  \/ SecondHit(r) \/ SecondMiss(r)
  \/ Query(r) \/ SetEx(r) \/ Unlock(r) \/ Answered(r)

Next ==
  \/ \E r \in Readers :
       GetHit(r) \/ GetMiss(r) \/ ReadStep(r) \/ TryLockReplyLost(r) \/ Fails(r)
  \/ CreateTask
  \/ \E w \in Writers : Update(w) \/ Del(w) \/ DelFails(w)
  \/ CacheExpires
  \/ LockExpires

Spec == Init /\ [][Next]_vars

\* A goroutine that serves GetTask goes on, and Redis expires cache entries.
\* Nothing is assumed of new requests, of updates, or of the lock's TTL.
Fairness ==
  /\ \A r \in Readers : WF_vars(ReadStep(r))
  /\ WF_vars(CacheExpires)

FairSpec == Spec /\ Fairness

-----------------------------------------------------------------------------
(* Properties                                                               *)

\* The cache holds an older row only while an update has not reached its DEL, or
\* when this very entry outlived a DEL that failed or was written by a reader,
\* with or without the rebuild lock, whose query a DEL had overtaken.  The next
\* DEL or the TTL ends it.  ("__NULL__", version 0, is the other exception:
\* CreateTask does not delete it.)
StaleOnlyByOverlap ==
  cache # NoEntry /\ cache > 0 /\ cache < row
    => tainted \/ \E w \in Writers : at[w] = "del"

\* A request gets a task older than what all finished updates had written when
\* it began only from such an entry: never by rebuilding, with the lock or
\* without it, and never because another rebuild was slow.
AnswersSettled ==
  \A r \in Readers :
    at[r] = "done" /\ task[r] > 0 /\ task[r] < floor[r] => r \in overtaken

\* Once the task changes no more, the cache and the row agree for good: a stale
\* entry and a "__NULL__" go with their TTL, and no reader brings them back.
CacheConverges == <>[](cache \in {NoEntry, row})
=============================================================================
