------------------------- MODULE NotificationStream -------------------------
(***************************************************************************)
(* The notification events of internal/logic/notification/stream.go: a     *)
(* Redis stream with one consumer group, and in every instance a worker    *)
(* that at each tick takes a new message or, if there is none, claims one  *)
(* that has been pending for 30 seconds, and then inserts the row, adds it *)
(* to the unread set and acknowledges the message.                         *)
(*                                                                         *)
(* The messages are numbered in the order of their stream ids.  There is   *)
(* no lock, and all workers use one consumer name.                         *)
(***************************************************************************)
EXTENDS Naturals, FiniteSets

CONSTANTS
  Workers,      \* the event worker goroutine of each running instance
  MaxEvents,    \* bound: published messages
  MaxSlow,      \* bound: times a message in work is taken for abandoned
  MaxRejects,   \* bound: INSERTs that MySQL rejects
  MaxFaults     \* bound: crashes, lost replies and other error answers

ASSUME EventsAssumption == MaxEvents \in Nat
ASSUME WorkersAssumption == IsFiniteSet(Workers)

Ids == 1..MaxEvents
NoId == 0       \* "the worker has no message"

VARIABLES
  published,    \* the stream holds the messages 1..published
  delivered,    \* last-delivered-id of the group
  pending,      \* the pending entries of the group
  idle,         \* those that were not delivered for 30 seconds
  at,           \* at[w]: the next round trip of worker w
  message,      \* message[w]: the id of the message w works on
  rows,         \* rows[i]: rows that workers inserted for message i
  unread,       \* unread[i]: ids of those rows SADDed to notification:unread
  claims,       \* history: claims[i] counts the XAUTOCLAIMs of i
  hasty,        \* history: how many became idle while a worker was at work
  rejects, faults

group   == <<published, delivered, pending, idle>>
workers == <<at, message>>
tables  == <<rows, unread>>
history == <<claims, hasty, rejects, faults>>
vars    == <<group, workers, tables, history>>

\* A worker has a message, one that was delivered, from there to its tick.
TypeOK ==
  /\ published \in 0..MaxEvents /\ delivered \in 0..published
  /\ pending \subseteq 1..delivered /\ idle \subseteq pending
  /\ at \in [Workers -> {"tick", "claim", "insert", "sadd", "xack"}]
  /\ message \in [Workers -> 0..delivered]
  /\ \A w \in Workers : message[w] = NoId <=> at[w] \in {"tick", "claim"}
  /\ rows \in [Ids -> Nat] /\ unread \in [Ids -> Nat]
  /\ claims \in [Ids -> Nat]
  /\ hasty \in Nat /\ rejects \in Nat /\ faults \in Nat

None == [i \in Ids |-> 0]

Init ==
  /\ published = 0 /\ delivered = 0 /\ pending = {} /\ idle = {}
  /\ at = [w \in Workers |-> "tick"] /\ message = [w \in Workers |-> NoId]
  /\ rows = None /\ unread = None
  /\ claims = None /\ hasty = 0 /\ rejects = 0 /\ faults = 0

Inc(f, i) == [f EXCEPT ![i] = @ + 1]
Goto(w, stage) == at' = [at EXCEPT ![w] = stage]

\* w works on message i from here.
Start(w, i) ==
  /\ message' = [message EXCEPT ![w] = i]
  /\ Goto(w, "insert")

\* w returns and waits for its next tick.
Return(w) ==
  /\ message' = [message EXCEPT ![w] = NoId]
  /\ Goto(w, "tick")

\* One more crash, lost reply or error answer, within the bound.
Fault == faults < MaxFaults /\ faults' = faults + 1

\* Some worker still works on message i.
InWork(i) == \E w \in Workers : message[w] = i

-----------------------------------------------------------------------------
\* PublishNotificationEvent: XADD.
Publish ==
  /\ published < MaxEvents
  /\ published' = published + 1
  /\ UNCHANGED <<delivered, pending, idle, workers, tables, history>>

\* XREADGROUP with NOACK: nothing becomes pending.
DeliverNoAck ==
  /\ delivered < published
  /\ delivered' = delivered + 1
  /\ UNCHANGED <<published, pending, idle>>

\* XREADGROUP ... COUNT 1 ... >: the next message is delivered and pending.
Deliver ==
  /\ delivered < published
  /\ delivered' = delivered + 1
  /\ pending' = pending \cup {delivered'}
  /\ UNCHANGED <<published, idle>>

\* ReadOneNotificationEvent.
ReadOne(w) ==
  /\ at[w] = "tick"
  /\ Deliver
  /\ Start(w, delivered')
  /\ UNCHANGED <<tables, history>>

\* No new message: the tick is over.
ReadNoneEnds(w) ==
  /\ at[w] = "tick"
  /\ delivered = published
  /\ UNCHANGED vars

\* No new message: only then look for one to claim.
ReadNone(w) ==
  /\ at[w] = "tick"
  /\ delivered = published
  /\ Goto(w, "claim")
  /\ UNCHANGED <<group, message, tables, history>>

\* A claim with minimum idle time 0.
ClaimAny(i) ==
  /\ i \in pending
  /\ \A j \in pending : i <= j
  /\ idle' = idle \ {i}
  /\ claims' = Inc(claims, i)
  /\ UNCHANGED <<published, delivered, pending>>

\* XAUTOCLAIM from 0-0, COUNT 1: the first message that has been idle long
\* enough; its idle time starts anew, whoever else may be working on it.
Claim(i) ==
  /\ i \in idle
  /\ \A j \in idle : i <= j
  /\ idle' = idle \ {i}
  /\ claims' = Inc(claims, i)
  /\ UNCHANGED <<published, delivered, pending>>

\* ClaimOnePendingNotificationEvent.
ClaimOne(w) ==
  /\ at[w] = "claim"
  /\ \E i \in pending : Claim(i) /\ Start(w, i)
  /\ UNCHANGED <<tables, hasty, rejects, faults>>

ClaimNone(w) ==
  /\ at[w] = "claim"
  /\ idle = {}
  /\ Goto(w, "tick")
  /\ UNCHANGED <<group, message, tables, history>>

\* The group has delivered or claimed a message and the reply is lost.
ReplyLost(w) ==
  /\ Fault
  /\ \/ at[w] = "tick" /\ Deliver /\ UNCHANGED <<at, claims>>
     \/ at[w] = "claim" /\ (\E i \in pending : Claim(i)) /\ Goto(w, "tick")
  /\ UNCHANGED <<message, tables, hasty, rejects>>

\* processNotificationEventMessage: the INSERT answers an id.
InsertOK(w) ==
  /\ at[w] = "insert"
  /\ rows' = Inc(rows, message[w])
  /\ Goto(w, "sadd")
  /\ UNCHANGED <<group, message, unread, history>>

\* It answers an error and MySQL has no row: the message stays pending.
InsertRejected(w) ==
  /\ at[w] = "insert"
  /\ rejects < MaxRejects
  /\ rejects' = rejects + 1
  /\ Return(w)
  /\ UNCHANGED <<group, tables, claims, hasty, faults>>

\* It answers an error although MySQL committed the row.
InsertReplyLost(w) ==
  /\ at[w] = "insert"
  /\ Fault
  /\ rows' = Inc(rows, message[w])
  /\ Return(w)
  /\ UNCHANGED <<group, unread, claims, hasty, rejects>>

\* AddUnreadNotificationToRedis.
Announce(w) ==
  /\ at[w] = "sadd"
  /\ unread' = Inc(unread, message[w])
  /\ Goto(w, "xack")
  /\ UNCHANGED <<group, message, rows, history>>

\* AckNotificationEvent: XACK; if another worker was faster it answers 0, which
\* is logged as an error.
Ack(w) ==
  /\ at[w] = "xack"
  /\ pending' = pending \ {message[w]}
  /\ idle' = idle \ {message[w]}
  /\ Return(w)
  /\ UNCHANGED <<published, delivered, tables, history>>

\* Redis or MySQL fails at this round trip, or after the previous one took
\* effect, or the instance dies: the message stays pending.
Fails(w) ==
  /\ at[w] \notin {"tick", "claim"}
  /\ Fault
  /\ Return(w)
  /\ UNCHANGED <<group, tables, claims, hasty, rejects>>

\* 30 seconds have passed since i was last delivered or claimed, normally
\* because its worker is gone, now and then because it is slow.
BecomesIdle(i) ==
  /\ i \in pending \ idle
  /\ idle' = idle \cup {i}
  /\ \/ ~ InWork(i) /\ UNCHANGED hasty
     \/ InWork(i) /\ hasty < MaxSlow /\ hasty' = hasty + 1
  /\ UNCHANGED <<published, delivered, pending, workers, tables, claims,
                 rejects, faults>>

-----------------------------------------------------------------------------
\* One tick of the goroutine in StartNotificationEventWorker.
WorkerStep(w) ==
  \/ ReadOne(w) \/ ReadNone(w)
  \/ ClaimOne(w) \/ ClaimNone(w)
  \/ InsertOK(w) \/ InsertRejected(w)
  \/ Announce(w) \/ Ack(w)

WorkerFault(w) == ReplyLost(w) \/ InsertReplyLost(w) \/ Fails(w)

Next ==
  \/ Publish
  \/ \E w \in Workers : WorkerStep(w) \/ WorkerFault(w)
  \/ \E i \in Ids : BecomesIdle(i)

Spec == Init /\ [][Next]_vars

\* Tickers fire, goroutines go on, and time passes for pending messages.
Fairness ==
  /\ \A w \in Workers : WF_vars(WorkerStep(w))
  /\ \A i \in Ids : WF_vars(BecomesIdle(i))

FairSpec == Spec /\ Fairness

-----------------------------------------------------------------------------
(* Properties                                                               *)

Acked == (1..delivered) \ pending

\* At least once.  A message leaves the pending list only when its row is there
\* and its id was added to the unread set: whatever crashes, whichever reply is
\* lost and whoever claims it meanwhile (XACK comes last in stream.go).
AckedIsStored == \A i \in Acked : rows[i] > 0 /\ unread[i] > 0

\* Rows and claims are tied together: only a claim can store a message again.
\* While nothing fails and nobody is slower than 30 seconds, once is once, with
\* any number of workers of the same name and without a lock.
StoredOnce ==
  \A i \in Ids :
    /\ rows[i] <= 1 + claims[i]
    /\ faults = 0 /\ hasty = 0 => rows[i] <= 1

\* Every published message is acknowledged in the end, although workers die
\* with it in hand and MySQL rejects it for a while: it is claimed again.
EventsDone == \A i \in Ids : (published >= i) ~> (i \in Acked)
=============================================================================
