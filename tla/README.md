# TLA+ verification of TeamPulse

TeamPulse is a team collaboration server (Go, GoFrame) whose state lives in MySQL (the source of
truth) and Redis (locks, queues, caches, counters). Any number of instances run the same HTTP
handlers and the same four background goroutines, so everything below is about round trips of many
goroutines interleaving on shared Redis keys and MySQL rows, and about instances that die between two
of them. Paths are relative to the repository; `logic/` is `internal/logic/`.

## Inventory

| Component | State | Operations | Talks to |
|---|---|---|---|
| Distributed lock, `logic/lock` | one Redis string per lock, a `*Lock` per holder | `TryLock` (SET NX EX), `Unlock` (compare and delete script) | used by the retry worker, the reminder scanner, the heat decay and `GetTask` |
| Notifications, `logic/notification/notification.go` | MySQL `notification`, Redis set `notification:unread:{user}` | `CreateNotification`, `GetUnreadCount`, `MarkAsRead`, `GetNotifications` | called by tasks, comments and reminders; hands failures to the retry queue |
| Retry queue, `logic/notification/retry.go` | lists `queue`, `processing`, `dead`, worker lock | enqueue, `ProcessOneNotificationRetry` (every 5 s), manual recovery | inserts rows, fills the unread set |
| Event stream, `logic/notification/stream.go` | stream `notification:events`, group `notification-workers` | publish, read, claim, acknowledge (worker every 5 s) | inserts rows, fills the unread set |
| Task reminders, `logic/task/remind.go` | sorted set `task:reminder`, scanner lock | set, cancel, scan (every 5 s) | reads tasks, calls `CreateNotification` |
| Task detail, `logic/task/task.go` | MySQL `task`, `task:detail:{id}`, rebuild lock | `GetTask`, `CreateTask`, `UpdateTask`, `UpdateStatus` | team activity, heat, notifications |
| Comments, `logic/task/comment.go` | MySQL `task_comment`, `notification` | `CreateComment` (a transaction, then activity and SADDs), `ListComments` | activity, unread set |
| Likes, `logic/task/like.go` | set `task:likes:{id}` | like (script), unlike, status, like by WATCH/MULTI/EXEC | - |
| Hot ranking, `task.go`, `heat_decay.go` | sorted sets total, daily, weekly | `increaseTaskHeat`, hourly decay under a lock, top ten | called by the task operations |
| Team members, `logic/team/team.go` | MySQL `team_member`, set `team:members:{id}` | `CreateTeam`, `AddMember`, `GetMembers` | activity |
| Team activity, `logic/team/activity.go` | list `team:activities:{id}` | push, trim, expire; read | called by teams, tasks, comments |
| Presence, `logic/presence` | `presence:user:{id}`, set `presence:team:{id}` | `Heartbeat`, `GetOnlineMembers` | - |
| Profile, `logic/user` | MySQL `user`, `user:profile:{id}` | get, update | - |
| Login, `logic/auth`, `logic/jwt`, `middleware` | `auth:captcha:{name}`, `jwt:blacklist:{token}` | register, captcha, login, logout, `Auth` | rate limiter |
| Rate limiter, `logic/ratelimit` | a counter per user or address and minute | `CheckTaskCreate`, `CheckLogin` | controllers |

What makes each of them correct, and what makes that hard:

* **Lock**: one owner per lease, no lease removed by somebody else, no lease for ever. Holders die,
  replies get lost, and a slow holder outlives its TTL.
* **Retry queue**: a notification handed over is stored or dead or still traceable, and not stored
  more often than there are reasons for. Queue, processing list, row and worker change in separate
  round trips; the worker lock can expire; recovery is manual and does not look at live workers.
* **Unread set**: the count is the number of unread rows. Creators, refills and markers change row
  and set in separate round trips; the set is never rebuilt while it is not empty.
* **Event stream**: an acknowledged message is stored and announced. There is no lock, all workers
  use one consumer name, and a message is claimed after 30 seconds whether or not it is in work.
* **Reminders**: a reminder that is due is notified, once, and goes away. The scanner's lease is
  shorter than a long scan; `ZREM` ignores the score; a failed notification is queued *and* left; a
  failed query is taken for a task that does not exist.
* **Task detail cache**: a request is not answered with a task older than the last finished update,
  and an old entry goes away. Fills race with `UPDATE` and `DEL`; losers of the lock fill as well.
* **Task operations and comments**: what follows a committed statement - cache, activity, heat,
  notification, unread id - happens once, to the right users, or is missing for a reason. A request
  may end between any two of its round trips, and two requests decide by rows the other overwrites.
* **Hot ranking**: no increment is lost, none is decayed by one hour more than once per instance, and
  every daily and weekly board expires. Increments and decays of one key interleave.
* **Team, activity, presence**: a member set is the whole team or empty; the activity list is the
  newest without a gap; who is online is listed. Each is two or three round trips on a shared key, and a
  user's presence is one key for all teams while each team has a list of its own.
* **Likes, profile, sessions, rate limiter**: answers belong together, a copy is not older than an
  answered update, a captcha and a logged out token are of no further use, a minute lets no more
  through than its limit. In each a check and the act that relies on it are separate round trips.

The `hazards` of `PROJECT.json` name the line where each of these bites.

## Modules

| Module | Models | Composed by |
|---|---|---|
| `DistLock` | `logic/lock/lock.go` | instance `Lk` of the next three, with their goroutines as `Clients`; `HeatRanking` extends it |
| `NotificationRetry` | `CreateNotification` and `retry.go` | `MCNotificationRetry` |
| `TaskReminder` | `remind.go`, with `CreateNotification`'s outcomes | `MCTaskReminder` |
| `TaskDetail` | `GetTask` against `CreateTask`, `UpdateTask`, `UpdateStatus` | `MCTaskDetail` |
| `UnreadSet` | `GetUnreadCount`, `MarkAsRead`, the creators' INSERT and SADD | `MCCachedSets` |
| `NotificationStream` | `stream.go` | `MCNotificationStream` |
| `HeatRanking` | `increaseTaskHeat` and `heat_decay.go`, the decay under the lease of `DistLock` | `MCCachedSets` |
| `Handlers` | the goroutines of the HTTP server and their next round trips, nothing else | the modules below |
| `TaskRequests` | `CreateTask`, `UpdateTask`, `UpdateStatus` with all they do after the statement | `TaskComments` |
| `TaskComments` | `CreateComment` on the task of `TaskRequests` | `MCHandlers` |
| `TaskLikes` | `LikeTask`, `UnlikeTask`, `GetLikeStatus` | `MCHandlers` |
| `RateLimit` | `ratelimit.go` and the controllers' answer | `MCHandlers` |
| `Session` | register, captcha, login, logout, black list, `middleware/auth.go`, `jwt.go` | `MCHandlers` |
| `UserProfile` | `profile.go` | `MCHandlers` |
| `TeamMembers` | `team.go`, `activity.go` | `Presence` |
| `Presence` | `presence.go`, for the members of `TeamMembers` | `MCCachedSets`, `MCTeam` |
| `*_proofs` | theorems about the module they are named after; `HeatRanking_proofs` about `DistLock` too, `Handlers_proofs` about the five that `MCHandlers` composes, `Team_proofs` about `TeamMembers` and `Presence` | - |
| `MC*` | compositions, and symmetry sets for TLC; the `.cfg` files give the constants their values | - |

### How states and actions correspond to the code

* **One action is one round trip** to Redis or MySQL, with the local computation that follows it.
  Redis executes a command or a script alone, and the statements used here touch single rows (a
  comment and its notifications are one transaction), so nothing smaller can be observed. A
  goroutine's place in its function is `at[p]`; its local variables that outlive a round trip are
  `req[p]`, `held[p]`, `raw[w]`, `batch[s]`, `ids[p]`, `message[w]` and the like (`step`, `stage`, `doing`
  are places too, where modules are composed that have to tell theirs apart). In
  `NotificationRetry` the many concurrent callers of `CreateNotification` are counted per stage
  (`inserting`, `enqueuing`, `announcing`) instead of named.
* **Handlers.** `Procs` are goroutines of the server; each serves one request after another. The
  components of `MCHandlers` share no key and no row, only the goroutines, so a behaviour is about one
  of them: the variable `about` says which, and all others keep their initial values. `TaskComments`
  works on the task, the notifications and the counters of `TaskRequests`; `Presence` asks about
  the members of `TeamMembers`, and a goroutine that is idle serves either.
* **Sets of Redis.** Members, presence, heat and unread ids share no key either: `MCCachedSets` runs
  the four modules beside each other, and again one behaviour is about one of them. Presence starts there
  from a team that everybody has joined, because its own steps do not read how that came about.
* **One team.** `TeamMembers` and `Presence` are about one team, since no key or row of theirs belongs to
  two, but for `presence:user:{id}`: `HeartbeatElsewhere` is the SETEX of a heartbeat to any other team of
  that user, whose later steps touch the other team's set only. A user may be online by it without being
  in this team's set, and the set may end while the user is alive.
* **One component seen by another.** Where an operation calls a component that has a module of its
  own, the caller keeps what the caller's properties need: `TaskRequests` counts activities and heat,
  and puts ids into one set `unread`; the interplay inside is the other module's.
* **Failures.** An error answer before the command took effect, one after it (a lost reply) and a
  crash are separate actions where code or state can tell them apart (`ReturnError`,
  `...ReplyLost`, `Crash`, `NotifyFails`), and one action where they cannot (`RequestFails`, `Fails`): the
  request ends at its next round trip, with the last one done or not. Where the code goes on after an
  error, the action does as well: `ReadTaskFails` is the SELECT of a due task that fails, after which the
  scan removes the reminder (`remind.go:103` looks at the id before line 110 looks at the error).
* **Time.** A TTL is an expiry that may happen at any moment, whether or not the holder is done. There
  is a clock only where the code compares times: `TaskReminder` (due times), `Session` (ticks of token
  and entry), `RateLimit` (the minute in the key), `HeatRanking` (hours). Lives that the code fixes
  in relation to each other are kept: an entry of the black list has the life of a new token, a
  user's key of 60 s ends before the team's set of an hour that the same heartbeat renewed.
* **Data.** A notification is its receiver and its cause, a task row the columns whose changes decide
  something, a score the increments in it and how often each was decayed, a token its tick of issue.
  JSON, key formatting, texts and logging are left out. Requests that a check refuses, and edits that
  change no column, change no state and are left out too.
* **History variables** (marked in each module) count faults, requests, losses and replays. No
  guard of the code's actions reads them, except for the bounds.

## Runs

| Run | Question | Instance |
|---|---|---|
| `cached_sets` | members: racing additions, complete answers, the newest activities | 2 goroutines, 2 users, list of 2, 1 incident |
| | presence: who is online and who is listed | the same, from a team that both users joined |
| | heat: increments kept, decays bounded, boards expire, the lease's owner | 2 decay goroutines, 2 tokens, 2 teams, 2 requests, 2 hours, 1 mishap |
| | unread: what the set may miss or keep; when a count is exact | 2 notifications, 2 counters, 2 markers, 2 failures |
| `retry` | nothing lost or stored twice uncounted, the retry limit, unread ids; the queue drains | 2 workers, 1 notification requested twice, limit 2, 1 fault, 1 recovery |
| `retry_crash` (violation) | "not lost when the worker dies or a retry fails" | 1 worker, 1 fault, the code's limit 3 |
| `stream` | acknowledged means stored; stored again only by claims; every message is acknowledged | 2 workers, 2 messages, 2 slow moments, 1 rejection, 2 faults |
| `reminder` | one scanner; an owed reminder is lost only by a setting during a scan or a failed SELECT; one notification | 2 tasks, 2 calls, 2 scanners, time 0..2, 1 rejection, 2 faults |
| `reminder_live` | every reminder is removed | 1 task, 2 scanners, 1 rejection, 1 fault |
| `reminder_rescan` (violation) | "scanning again does not notify again" | 1 task, 1 rejection, no fault |
| `reminder_misread` (violation) | "removed only after its notification was created" | 1 task, 1 scanner, 1 failed SELECT |
| `detail` | an old entry or answer needs a fault or an overlap; the cache converges | 2 readers, 2 writers, 3 versions, 1 fault |
| `team_partial` (violation) | "AddMember keeps the set in step with the members" | 1 goroutine, 2 users, 1 expiry |
| `handlers` | effects of task requests, who is told, comments, likes, limits, sessions, profile | 2 goroutines, 2 users, 2 titles, 2 statuses, 2 calls, 2 mentions, 2 faults; limit 2, 4 requests, 2 minutes; lives of 2 ticks, 3 ticks, 2 captchas; 3 edits |
| `captcha_once` (violation) | "the captcha can be used only once" | 2 goroutines, 1 captcha, no failure needed |

Why these bounds mean something: two workers, goroutines or scanners are what an expired lease, a
claim, a lost lock or a race between check and act needs. Two equal notifications are what `LREM` by value could
confuse; two faults let a crash hit the recovery of a crash. Two calls are two settings of one
reminder, the two tasks of one batch, a setting and an edit behind it, or two edits one of which
overtakes the other. Three versions let an old row be overtaken twice. Two mentions are two users or one
user twice. Limit 2 with four requests over two minutes lets each request of a full minute race
with the EXPIRE of the first and with the minute's end. A list of 2 activities overflows with the third.
Two or three lock tokens are enough for any number of leases, because a token that is neither in Redis
nor in a client's hands can be drawn again as a new one. Every bound is a CONSTANT and appears in a
guard (`MaxCalls`, `MaxFaults`, `MaxRecovers`, `MaxTime`, `MaxRejects`, `MaxEvents`, `MaxSlow`,
`MaxVersion`, `MaxHours`, `MaxMishaps`, `MaxFailures`, `MaxIncidents`, `MaxMentions`, `MaxMinutes`,
`MaxAsked`, `MaxTicks`, `MaxCaptchas`, `MaxEdits`). The theorems need none of them to be small.

`cached_sets` and `handlers` are the largest, with 1.6 and 1.7 million distinct states and about three
minutes each on two cores; what they add up are components that never share a state.

Symmetry is used for sets whose members no definition tells apart, and only in runs without a
liveness property. Deadlock is checked in every run: where the bounds let a system stop, the
specification has a step (`Finished`, an idle tick) that says it stops in a good state.

### What the violation runs show

Three sentences of `docs/PROJECT_ROADMAP.md`, one of `README.MD` and two comments say more than the code
does.

1. Line 1203, no loss when the worker dies or a retry fails: the failure path runs `LREM` and then
   `RPUSH`; a stop between them drops the notification (`retry.go:144-153`). `NothingLost` counts
   exactly these drops.
2. Line 913, scanning again does not notify again: a rejected INSERT queues the payload and keeps the
   reminder, so both the retry worker and the next scan deliver it (`remind.go:133`,
   `notification.go:266-278`). `NotifiedAtMostOnce` allows one more notification for each rejection.
3. Line 137, team creation and member addition keep the set in step, so that queries can use it: after
   the TTL of the set `AddMember` makes a set of the new member alone, which `GetMembers` takes for the
   team (`team.go:128`, `team.go:152`). `AnswersComplete` says what holds until the TTL.
4. `README.MD:103`, a reminder is removed only after its notification was created, so that none is lost:
   when the SELECT of the task fails, its id is zero, and `remind.go:103` takes that for a missing task
   before line 110 looks at the error. The reminder is removed (line 105), nobody is told and nothing is
   queued. `ReminderKept` says that no other failure does this: those of Redis and of the INSERT leave the
   reminder, a queued payload or a row.
5. `auth.go:83` and `captcha.go:53`, the captcha is deleted after a login so that it can be used only once: the
   GET that verifies it and the DEL are separate round trips, with the password check between them, and
   every login that verified it before the DEL may succeed. `OnlyRacersSucceed` says who does not: whoever
   verifies it after the first login did its DEL.

Other sentences are weaker in the code than they read; the runs say what holds instead.

* Line 679, the DEL avoids answering old data: a reader's SETEX may come after the DEL with a row from
  before the update (`task.go:418-446`). `StaleOnlyByOverlap` and `AnswersSettled` trace every stale
  entry and answer to one DEL that failed or that overtook the reader's query, and `CacheConverges` says
  that the TTL heals it. `ProfileSettled` is the same for profiles.
* Line 376, querying the count rebuilds the set: only an empty set is rebuilt (`notification.go:78`).
  `UnreadCounted` says that only a failed SADD of the same id hides a notification.
* Line 1476, a lock prevents repeated decay by several instances: it is released as soon as the
  decay is done, so every instance decays once an hour. `DecaysBounded` has that bound.
* Line 1339, the scanner's lock keeps instances from scanning the same reminders: `OneScanner` holds
  until a scan outlives its lease of 4 seconds, which is neither renewed nor checked
  (`remind.go:182-202`).

## Fairness

Only `retry`, `stream`, `reminder_live` and `detail` use a `FairSpec`. It assumes

* weak fairness of a worker's, scanner's or reader's own step: tickers fire for ever (`time.NewTicker`,
  5 s) and the Go runtime schedules runnable goroutines; the step contains no fault, so a fault is
  never forced, and the skipped tick is a step, so a busy lock is not excluded;
* weak fairness of a TTL: Redis expires keys (`LockExpires`, `CacheExpires`), and entries of the pending
  list grow older (`BecomesIdle`);
* weak fairness of the clock in `TaskReminder`.

Nothing is assumed of callers, of the operator who recovers messages, of updates, or of whether an
INSERT succeeds. In `NotificationRetry` every INSERT may fail and `QueueDrains` still holds, through
the retry limit. `TaskReminder` and `NotificationStream` have no such limit in the code: `RemindersEnd`
and `EventsDone` hold because rejections are bounded (`MaxRejects`), and the hazards name what happens
without that (a reminder that always fails blocks those behind it; a message that always fails is
claimed for ever; a publisher faster than the ticks starves pending messages).

## Proofs

`tlapm` checks every theorem for all values of the constants, under the named assumptions of the
modules only: token and payload values differ from the "no value" ones, the sets of goroutines,
users, teams, tasks and notifications are finite, the bounds are numbers, and an entry of the black list
lives no shorter than a token (`SessionAssumption`; in the code both are 2 h, although the comment at
`token.go:11` calls the first one twice the other: an equal life is enough for `LoggedOutRefused`).

* **`HeatRanking_proofs`** first treats `DistLock` itself: `OneOwner` is inductive, because
  `RandomTokens` excludes every token still around; `LeaseEndsByOwnerOrTTL` follows step by step
  from typing. `HeatImplementsLock` shows that every step of `HeatRanking` is a step of `DistLock` or leaves
  its variables alone, so both facts hold of the decay lease. `IncrementsKept` and `BoardsExpire` are
  proved with the types of `HeatRanking`. `DecaysBounded` compares ages with what is still to come:
  `Due(k)` counts the workers that have not ticked in this hour, those that scan or have a key of team
  `k` to multiply, and those that have it twice. `DecaysIInv` keeps the age of every score plus `Due`
  within the budget: a step of a worker moves one from `Due` to the ages of the scores it multiplies,
  an hour adds at most one for each instance to `Due` and as many to the budget. It needs the workers'
  types (`DecayTypes`) and that a worker begins once in an hour, but not the lease.
* **`NotificationRetry_proofs`** begins with how the number of entries about a notification changes with
  `Append`, `Tail` and `RemoveFirst`, by explicit bijections between index sets. `RemoveFirst` removes
  at most one entry, and if it removes one, an equal one. `NothingLost` and `AtMostOnce` are not
  inductive: between INSERT and `LREM` a notification is both a row and a list entry, and a recovered message exists twice. `Books`
  balances both ways, for one notice: a loss side that adds the stored but unacknowledged messages, and
  a surplus side that counts a message only while a worker may still store or requeue it. Neither
  uses the lock, so the result holds although leases expire under their holders. `RetryAnnounces` adds
  that every row has an announcement done or under way while nothing has failed. `RetryLimitKept`
  needs the attempts to come: a message with retryCount `a`, in the queue or in the hand of a worker,
  stands for the pairs of its place and each count from `a` to `MaxCount` (`QueuedAttempts`,
  `HeldAttempts`). `Limit` keeps their number, the failed attempts and what calls under way may still
  enqueue within `MaxCount + 1` for each call and replay; a failure turns one pair into a failed
  attempt, and a message that is recovered from `processing` is a counted replay.
  `RetryImplementsLock` maps every step of the queue to a step of `DistLock` or a stutter.
* **`NotificationStream_proofs`**: `WorkDone` says what a worker's place implies of its message (at
  `sadd` it has a row, at `xack` it is announced too); that gives `AckedIsStored`. `StoredOnce` needs
  `OneWorker` (without slow workers and failures a message is in one pair of hands) and `Ledger` (rows and
  INSERTs under way are no more than deliveries).
* **`UnreadSet_proofs`**: `IInv` joins `UnreadCounted`, `PhantomsExplained` and what counters hold: an id
  in a refill that is read is explained by a marker or in `late`. `CalmCounts` adds, for `CountExact`,
  what a count knows of its rows as long as nothing overlaps it.
* **`TaskDetail_proofs`**: `DetailIInv` says of each reader's row, with its history, when it may be older
  than the cache or the last finished update; both safety properties follow.
* **`TaskReminder_proofs`**: `ScanLocks` ties a scanner to its lease; `KeptInv` follows an owed reminder
  from the sorted set into a batch and back, and knows of a scanner about to remove one that it is owed
  no longer, was set again, or was misread; `NotifiedInv` weighs, for each task, what is
  notified, waiting in a batch, and queued against settings and rejections. `ReminderImplementsLock`
  maps every step to a step of `DistLock` or a stutter.
* **`Handlers_proofs`**: for profiles, likes, sessions and the rate limiter an invariant each
  (`ProfileIInv`, `LikesIInv`, `BlacklistIInv`, `RaceIInv`, `RateTypes`, `LimitIInv`). `RaceIInv` and
  `LimitIInv` count: what was granted, and the goroutines that may still be granted something, are
  together no more than the goroutines there are, or, for the rows of a name (`founders`), than those that
  were before their INSERT at the first one. A captcha has no latecomers, because it is gone for good
  once a login has come past its DEL. `TaskEffectsOnce` compares the changes and
  comments with activities and heat: each step moves one goroutine between the sets that are under
  way (`OneMoves`), and `FreshCalls` keeps a new comment from being one that is counted already.
  The notifications of the task requests follow from `NotesTypes` (what is in hand was stored by the
  request that has it) and three books: `MissingCounted`, the calls whose notifications are neither
  announced nor in hand, at most one for each fault; `NotesByCall`, who was told by each committed
  comment, counted by a bijection from the mentions to the rows (`TransactionTells`); and
  `AssigneesCounted`, for each user what is stored, queued and under way against how often the user
  became the assignee: an UPDATE of the row that was read adds to both sides, any other is blind.
  `HandlersTypeOK` is proved last, of `MCSpec` itself: `HandlersTyped` says of the component a behaviour
  is about that its types hold with what they rest on. For the rate limiter that is a count again
  (`RateCounted`: each INCR, and each request let through, was asked for), for the comments
  `Orderly` (mentions, hands and requests fit the round trip).
* **`Team_proofs`** is about `PresenceSpec`, the team with its presence. The steps of either component
  leave the other's variables alone (`PresenceApart` and its like), so that most parts are proved once.
  `QueryOK` says what a query in progress knows: of everybody online all the time it has a candidate or an
  answer, and whoever it may still find was seen; that gives `OnlineAnswer`. `OnlineListed` is inductive
  beside the types: each step that can part a user's key from the list leaves one of its excuses behind.
  `RowsBounded` counts the INSERTs under way (`RowsIInv`). `AnswersComplete` needs that, before any
  failure or expiry, the set has all settled members, and what each request has read of those it must
  show (`SetIInv`, `Answered`). `ActivitiesNewest` follows the list by its numbers, and its length by
  the requests that have yet to trim or failed to.

Every invariant of the passing runs is the conclusion of a theorem, and the action property of the lease
too. Only model-checked: liveness (`QueueDrains`, `EventsDone`, `RemindersEnd`, `CacheConverges`), since
fairness is beyond the prover, and what the violation runs refute. The components of `MCHandlers` and
of `MCCachedSets` are proved one by one, of their own specifications. For `MCHandlers`,
`BehavioursOfOne` shows that each behaviour of `MCSpec`
is one of the component it is about, so that `InvariantsTogether` has all of them for `MCSpec` too, in
the behaviours about their component (in the others their variables never move).

## Not modelled

* `LikeTaskWithRedisTransaction`: nothing calls it, and its WATCH, MULTI and EXEC go to whatever pooled
  connection each call gets, which the source does not determine.
* Permissions (they only forbid operations) and what only reads: `GetNotifications`, `GetTasks`, the
  three hot lists, `ListComments`, `GetActivities`, the pending count of the stream.
* Creation of the stream's group (idempotent); controllers, beyond the ones in `RateLimit` and `Session`;
  API types, DAO, entities, front end.
* A branch of `ScanDueReminders` that this program cannot reach: a member that is not a number
  (`SetReminder` adds ids). The branch after it, of a task that does not exist, is in the model, as a SELECT
  that fails; nothing deletes tasks.
* Messages of the stream whose receiver is their actor: `CreateNotificationRecord` stores no row for them
  (`notification.go:221`), and they are acknowledged without one. No caller publishes such a message.
* MySQL is a store of rows with atomic statements, Redis a store with atomic commands; neither loses what
  it acknowledged.
