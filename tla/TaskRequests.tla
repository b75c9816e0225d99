---------------------------- MODULE TaskRequests ----------------------------
(***************************************************************************)
(* CreateTask, UpdateTask and UpdateStatus of internal/logic/task/task.go  *)
(* on one task, and what each does after its statement on the row: cache,  *)
(* activity, heat, notification (CreateNotification of                     *)
(* internal/logic/notification), in this order and until one of them fails. *)
(*                                                                         *)
(* Requests that a check refuses, and edits that change no column of the   *)
(* row they read, change nothing and are left out.  The cache, the hot     *)
(* boards, the list of activities and the retry queue have modules of      *)
(* their own; here each is one step that counts.                           *)
(***************************************************************************)
EXTENDS Handlers, Naturals, Sequences, FiniteSets

CONSTANTS
  Nobody,       \* NULL in the column assignee_id
  NoTask,       \* there is no row yet
  Titles,       \* title, description and priority
  Statuses,     \* todo, doing, done
  MaxCalls,     \* bound: requests on the task that change something
  MaxFaults     \* bound: rejected INSERTs and requests that end early

Rows == [title : Titles, assignee : Users \cup {Nobody}, status : Statuses]

ASSUME RequestsAssumption ==
  /\ Nobody \notin Users /\ NoTask \notin Rows
  /\ MaxCalls \in Nat /\ MaxFaults \in Nat

VARIABLES
  task,         \* the row
  req,          \* req[p]: p's request: its number, who makes it, the row it
                \* read and the columns it writes
  held,         \* held[p]: notifications p has stored and not announced yet
  notes,        \* the table notification, in the order of the ids
  unread,       \* the ids in the sets of unread notifications
  queued,       \* queued[u]: payloads for u in the retry queue
  activities, heat,  \* how often each was counted
  calls, rejected, lost,   \* history: requests, rejected INSERTs, requests
                           \* that ended early
  changes, blind,   \* history: UPDATEs of the row, and those of a row that was
                    \* not the one they had read
  became            \* history: became[u]: how often somebody else's UPDATE made
                    \* u the assignee

effects  == <<activities, heat, notes, unread, queued>>
served   == <<at, req, held>>
history  == <<changes, blind, became>>
requestVars == <<task, served, effects, calls, rejected, lost, history>>

NoReq == <<>>

Stages == {"idle", "update", "cache", "activity", "heat", "notify", "enqueue", "announce"}

\* A goroutine has a request, and notifications to announce, only while it
\* serves one.
RequestsTypeOK ==
  /\ task \in Rows \cup {NoTask} /\ DOMAIN at = Procs /\ DOMAIN req = Procs
  /\ \A p \in Procs :
       /\ at[p] = "idle" <=> req[p] = NoReq
       /\ held[p] \in Seq(DOMAIN notes)
       /\ at[p] \in {"idle", "update", "cache", "heat", "notify", "enqueue"} => held[p] = <<>>
       /\ at[p] = "announce" => held[p] # <<>>
  /\ \A n \in DOMAIN notes : notes[n].to \in Users
  /\ unread \subseteq DOMAIN notes /\ queued \in [Users -> Nat]
  /\ activities \in Nat /\ heat \in Nat /\ changes \in Nat
  /\ calls \in 0..MaxCalls /\ rejected + lost \in 0..MaxFaults

RequestsInit ==
  /\ task = NoTask
  /\ HandlersInit /\ req = [p \in Procs |-> NoReq]
  /\ held = [p \in Procs |-> <<>>]
  /\ notes = <<>> /\ unread = {} /\ queued = [u \in Users |-> 0]
  /\ activities = 0 /\ heat = 0 /\ calls = 0 /\ rejected = 0 /\ lost = 0
  /\ changes = 0 /\ blind = 0
  /\ became = [u \in Users |-> 0]

\* A request that ends keeps its notifications.
DoneHolding(p) ==
  /\ Ends(p)
  /\ req' = [req EXCEPT ![p] = NoReq]
  /\ UNCHANGED held

\* The request is answered, or given up.
Done(p) ==
  /\ Ends(p)
  /\ req' = [req EXCEPT ![p] = NoReq]
  /\ held' = [held EXCEPT ![p] = <<>>]

Faulty == rejected + lost < MaxFaults

\* row has other values than new in the columns of new.
Differs(row, new) == \E f \in DOMAIN new : row[f] # new[f]

-----------------------------------------------------------------------------
(* The statement on the row.                                                *)

\* INSERT of the task; nobody is notified.
CreateTask(p, u) ==
  /\ task = NoTask
  /\ Trip(p, "idle", "activity")
  /\ task' \in {r \in Rows : r.status = "todo"}
  /\ req' = [req EXCEPT ![p] = [call |-> 0, actor |-> u, row |-> task', new |-> <<>>]]
  /\ UNCHANGED <<held, effects, calls, rejected, lost, history>>

\* The SELECT of a request on the task by u, which wants the columns new.
Reads(p, u, new, stage) ==
  /\ task # NoTask
  /\ calls < MaxCalls /\ calls' = calls + 1
  /\ Trip(p, "idle", stage)
  /\ req' = [req EXCEPT ![p] = [call |-> calls', actor |-> u, row |-> task, new |-> new]]
  /\ UNCHANGED <<task, held, effects, rejected, lost, history>>

\* An edit that changes no column of the row read is answered at once.
UpdateTask(p, u) ==
  \E t \in Titles, a \in Users \cup {Nobody} :
    LET new == [title |-> t, assignee |-> a]
    IN  task # NoTask /\ Differs(task, new) /\ Reads(p, u, new, "update")

UpdateStatus(p, u) ==
  \E s \in Statuses :
    LET new == [status |-> s]
    IN  task # NoTask /\ Differs(task, new) /\ Reads(p, u, new, "update")

\* Only the columns of the request are written, whatever the others hold now.
UpdatedRow(r) == [f \in DOMAIN task |-> IF f \in DOMAIN r.new THEN r.new[f] ELSE task[f]]

Update(p) ==
  LET r == req[p] IN
  /\ Trip(p, "update", "cache")
  /\ task' = UpdatedRow(r)
  /\ changes' = changes + 1
  /\ blind' = IF r.row # task THEN blind + 1 ELSE blind
  /\ became' = [u \in Users |->
       IF task'.assignee = u /\ task.assignee # u /\ r.actor # u
         THEN became[u] + 1 ELSE became[u]]
  /\ UNCHANGED <<req, held, effects, calls, rejected, lost>>

-----------------------------------------------------------------------------
(* What follows it.                                                         *)

\* DEL of the cached detail.
DelCache(p) ==
  /\ Trip(p, "cache", "activity")
  /\ UNCHANGED <<task, req, held, effects, calls, rejected, lost, history>>

IsUpdate(r) == r.new # <<>>

\* AddActivity, and where the request goes from there.
Activity(p) ==
  /\ at[p] = "activity"
  /\ activities' = activities + 1
  /\ IF IsUpdate(req[p]) THEN Trip(p, "activity", "heat") /\ UNCHANGED <<req, held>>
     ELSE IF held[p] # <<>> THEN Trip(p, "activity", "announce") /\ UNCHANGED <<req, held>>
     ELSE Done(p)
  /\ UNCHANGED <<task, heat, notes, unread, queued, calls, rejected, lost, history>>

\* The assignee in the row is told, whether the edit changes it or not.
ReceiversAny(r) == {UpdatedRow(r).assignee} \ {Nobody, r.actor}

\* Whom r notifies: of an edit the new assignee, if it is not the one in the row
\* it read; of a new status the assignee in the row it read.  CreateNotification
\* tells nobody of what they did themselves.
Receivers(r) ==
  (IF "assignee" \in DOMAIN r.new THEN {r.new.assignee} \ {r.row.assignee}
   ELSE {r.row.assignee}) \ {Nobody, r.actor}

IncreaseHeat(p) ==
  /\ at[p] = "heat"
  /\ heat' = heat + 1
  /\ IF Receivers(req[p]) # {} THEN Trip(p, "heat", "notify") /\ UNCHANGED <<req, held>>
     ELSE Done(p)
  /\ UNCHANGED <<task, activities, notes, unread, queued, calls, rejected, lost, history>>

\* The record that r stores for u; assigned tells the two types apart.
Note(r, u) == [to |-> u, call |-> r.call, assigned |-> "assignee" \in DOMAIN r.new]

\* INSERT of the notification.
Notify(p) ==
  /\ Trip(p, "notify", "announce")
  /\ \E u \in Receivers(req[p]) : notes' = Append(notes, Note(req[p], u))
  /\ held' = [held EXCEPT ![p] = <<Len(notes')>>]
  /\ UNCHANGED <<task, req, activities, heat, unread, queued, calls, rejected, lost, history>>

\* MySQL answers an error, with or without the row.
NotifyFails(p) ==
  /\ Trip(p, "notify", "enqueue")
  /\ Faulty /\ rejected' = rejected + 1
  /\ \/ UNCHANGED notes
     \/ \E u \in Receivers(req[p]) : notes' = Append(notes, Note(req[p], u))
  /\ UNCHANGED <<task, req, held, activities, heat, unread, queued, calls, lost, history>>

\* EnqueueNotificationRetry, and the request answers MySQL's error.
Enqueue(p) ==
  /\ at[p] = "enqueue"
  /\ \E u \in Receivers(req[p]) : queued' = [queued EXCEPT ![u] = @ + 1]
  /\ Done(p)
  /\ UNCHANGED <<task, activities, heat, notes, unread, calls, rejected, lost, history>>

\* p forgets the notification it stored.
AnnounceNothing(p) ==
  /\ at[p] = "announce"
  /\ Done(p)
  /\ UNCHANGED <<task, effects, calls, rejected, lost, history>>

\* SADD of the next id; after the last one the request is answered.
Announce(p) ==
  /\ at[p] = "announce"
  /\ unread' = unread \cup {Head(held[p])}
  /\ IF Len(held[p]) > 1
       THEN held' = [held EXCEPT ![p] = Tail(@)] /\ UNCHANGED <<at, req>>
       ELSE Done(p)
  /\ UNCHANGED <<task, activities, heat, notes, queued, calls, rejected, lost, history>>

\* A lost reply to AddActivity: it is tried again.
ActivityRetried(p) ==
  /\ Trip(p, "heat", "activity")
  /\ Faulty /\ lost' = lost + 1
  /\ UNCHANGED <<task, req, held, effects, calls, rejected, history>>

\* An error at p's next round trip, a lost reply to the last one, or the death
\* of the instance: the request ends there.
RequestFails(p) ==
  /\ at[p] # "idle"
  /\ Faulty /\ lost' = lost + 1
  /\ Done(p)
  /\ UNCHANGED <<task, effects, calls, rejected, history>>

RequestStep(p) ==
  \/ \E u \in Users : CreateTask(p, u) \/ UpdateTask(p, u) \/ UpdateStatus(p, u)
  \/ Update(p) \/ DelCache(p) \/ Activity(p) \/ IncreaseHeat(p)
  \/ Notify(p) \/ NotifyFails(p) \/ Enqueue(p) \/ Announce(p)
  \/ RequestFails(p)

RequestsNext == \E p \in Procs : RequestStep(p)

RequestsSpec == RequestsInit /\ [][RequestsNext]_requestVars
=============================================================================
