------------------------------ MODULE UnreadSet ------------------------------
(***************************************************************************)
(* The unread notifications of one receiver (notification.go): the rows of *)
(* MySQL, the Redis set notification:unread:{receiver}, the three steps of *)
(* whoever creates a notification (CreateNotification, the retry and event *)
(* workers, CreateComment after its commit), GetUnreadCount, which fills   *)
(* an empty set from the rows, and MarkAsRead.                             *)
(*                                                                         *)
(* A step is one round trip.  The set has no TTL; an empty set is no key.  *)
(***************************************************************************)
EXTENDS Naturals, FiniteSets

CONSTANTS
  Notes,        \* ids of notifications to the receiver
  Counters,     \* goroutines that serve GetUnreadCount, of any instance
  Markers,      \* goroutines that serve MarkAsRead
  NoNote,       \* "the marker is idle"
  MaxFailures   \* bound: failed round trips and crashes

ASSUME NotesAssumption == IsFiniteSet(Notes) /\ NoNote \notin Notes
ASSUME GoroutinesAssumption == Counters \cap Markers = {}

VARIABLES
  isRead,       \* isRead[n]: "none", "unread" or "read", in MySQL
  unread,       \* the Redis set
  announcing,   \* ids whose creator has inserted the row, before its SADD
  doing,        \* doing[p]: the next round trip of counter or marker p
  selected,     \* selected[c]: the ids that counter c selected
  count,        \* count[c]: the answer of c
  target,       \* target[m]: the notification that m marks
  calm,         \* history: during c's request no creator or marker was active
  missed,       \* history: ids whose SADD failed
  late,         \* history: ids removed while somebody was about to add them
  kept,         \* history: ids whose SREM failed
  failures

counter    == <<selected, count>>
history    == <<calm, missed, late, kept, failures>>
unreadVars == <<isRead, unread, announcing, doing, counter, target, history>>

UnreadStages == {"idle", "select", "sadd", "done", "update", "srem"}

\* The notifications that have a row, and those whose row is unread.
Rows   == {n \in Notes : isRead[n] # "none"}
Unread == {n \in Notes : isRead[n] = "unread"}

UnreadTypeOK ==
  /\ isRead \in [Notes -> {"none", "unread", "read"}]
  /\ unread \subseteq Rows /\ announcing \subseteq Rows
  /\ doing \in [Counters \cup Markers -> UnreadStages]
  /\ \A c \in Counters : doing[c] \in {"idle", "select", "sadd", "done"}
  /\ \A m \in Markers : doing[m] \in {"idle", "update", "srem"}
  /\ selected \in [Counters -> SUBSET Rows] /\ count \in [Counters -> Nat]
  /\ target \in [Markers -> Notes \cup {NoNote}]
  /\ \A m \in Markers : doing[m] = "idle" <=> target[m] = NoNote
  /\ calm \in [Counters -> BOOLEAN]
  /\ missed \subseteq Notes /\ late \subseteq Notes /\ kept \subseteq Notes
  /\ failures \in Nat

UnreadInit ==
  /\ isRead = [n \in Notes |-> "none"]
  /\ unread = {} /\ announcing = {}
  /\ doing = [p \in Counters \cup Markers |-> "idle"]
  /\ selected = [c \in Counters |-> {}] /\ count = [c \in Counters |-> 0]
  /\ target = [m \in Markers |-> NoNote]
  /\ calm = [c \in Counters |-> FALSE]
  /\ missed = {} /\ late = {} /\ kept = {} /\ failures = 0

Goto(p, stage) == doing' = [doing EXCEPT ![p] = stage]

\* One more failure, within the bound.
Failure == failures < MaxFailures /\ failures' = failures + 1

\* A creator or a marker did something.
Stir == calm' = [c \in Counters |-> FALSE]

-----------------------------------------------------------------------------
(* A creator.                                                               *)

\* CreateNotificationRecord.
CreateNotificationRecord(n) ==
  /\ isRead[n] = "none"
  /\ isRead' = [isRead EXCEPT ![n] = "unread"]
  /\ announcing' = announcing \cup {n}
  /\ Stir
  /\ UNCHANGED <<unread, doing, counter, target, missed, late, kept, failures>>

\* AddUnreadNotificationToRedis.
AddUnreadNotificationToRedis(n) ==
  /\ n \in announcing
  /\ unread' = unread \cup {n}
  /\ announcing' = announcing \ {n}
  /\ Stir
  /\ UNCHANGED <<isRead, doing, counter, target, missed, late, kept, failures>>

\* The SADD fails, or the creator dies before it: the row stays.
AddFails(n) ==
  /\ n \in announcing
  /\ Failure
  /\ announcing' = announcing \ {n}
  /\ missed' = missed \cup {n}
  /\ Stir
  /\ UNCHANGED <<isRead, unread, doing, counter, target, late, kept>>

-----------------------------------------------------------------------------
(* GetUnreadCount.                                                          *)

\* Nobody else is active when a request begins.
Quiet == announcing = {} /\ \A m \in Markers : doing[m] = "idle"

\* SCARD answers more than 0: that is the count.
SCard(c) ==
  /\ doing[c] = "idle"
  /\ unread # {}
  /\ count' = [count EXCEPT ![c] = Cardinality(unread)]
  /\ calm' = [calm EXCEPT ![c] = Quiet]
  /\ Goto(c, "done")
  /\ UNCHANGED <<isRead, unread, announcing, selected, target, missed, late, kept, failures>>

SCardZero(c) ==
  /\ doing[c] = "idle"
  /\ unread = {}
  /\ calm' = [calm EXCEPT ![c] = Quiet]
  /\ Goto(c, "select")
  /\ UNCHANGED <<isRead, unread, announcing, counter, target, missed, late, kept, failures>>

\* A selection without the condition is_read = 0.
SelectAll(c) ==
  /\ doing[c] = "select"
  /\ selected' = [selected EXCEPT ![c] = Rows]
  /\ count' = [count EXCEPT ![c] = Cardinality(Rows)]
  /\ Goto(c, IF Rows = {} THEN "done" ELSE "sadd")
  /\ UNCHANGED <<isRead, unread, announcing, target, history>>

\* SELECT id WHERE is_read = 0: none, or the ids to fill the set with.
SelectUnread(c) ==
  /\ doing[c] = "select"
  /\ selected' = [selected EXCEPT ![c] = Unread]
  /\ count' = [count EXCEPT ![c] = Cardinality(Unread)]
  /\ Goto(c, IF Unread = {} THEN "done" ELSE "sadd")
  /\ UNCHANGED <<isRead, unread, announcing, target, history>>

\* A refill that replaces the set (DEL, then SADD).
UnreadReplaced(c) ==
  /\ doing[c] = "sadd"
  /\ unread' = selected[c]
  /\ selected' = [selected EXCEPT ![c] = {}]
  /\ Goto(c, "done")
  /\ UNCHANGED <<isRead, announcing, count, target, history>>

\* SADD of the ids that were selected.
RefillUnread(c) ==
  /\ doing[c] = "sadd"
  /\ unread' = unread \cup selected[c]
  /\ selected' = [selected EXCEPT ![c] = {}]
  /\ Goto(c, "done")
  /\ UNCHANGED <<isRead, announcing, count, target, history>>

\* The request fails at this round trip, and the set stays as it is.
CountFails(c) ==
  /\ doing[c] \in {"select", "sadd"}
  /\ Failure
  /\ selected' = [selected EXCEPT ![c] = {}]
  /\ Goto(c, "idle")
  /\ UNCHANGED <<isRead, unread, announcing, count, target, calm, missed, late, kept>>

\* The answer is sent.
Answered(c) ==
  /\ doing[c] = "done"
  /\ Goto(c, "idle")
  /\ UNCHANGED <<isRead, unread, announcing, counter, target, history>>

-----------------------------------------------------------------------------
(* MarkAsRead by the receiver.                                              *)

\* SELECT the notification: a read one skips the UPDATE.
MarkAsRead(m, n) ==
  /\ doing[m] = "idle"
  /\ isRead[n] # "none"
  /\ target' = [target EXCEPT ![m] = n]
  /\ Goto(m, IF isRead[n] = "read" THEN "srem" ELSE "update")
  /\ Stir
  /\ UNCHANGED <<isRead, unread, announcing, counter, missed, late, kept, failures>>

UpdateIsRead(m) ==
  /\ doing[m] = "update"
  /\ isRead' = [isRead EXCEPT ![target[m]] = "read"]
  /\ Goto(m, "srem")
  /\ Stir
  /\ UNCHANGED <<unread, announcing, counter, target, missed, late, kept, failures>>

\* The set is left to the next refill.
SRemForgotten(m) ==
  /\ doing[m] = "srem"
  /\ Goto(m, "idle")
  /\ target' = [target EXCEPT ![m] = NoNote]
  /\ Stir
  /\ UNCHANGED <<isRead, unread, announcing, counter, missed, late, kept, failures>>

\* Somebody still holds n from before and is about to add it.
AboutToAdd(n) == n \in announcing \/ \E c \in Counters : n \in selected[c]

\* SREM, also when the row was read already.
SRemUnread(m) ==
  /\ doing[m] = "srem"
  /\ unread' = unread \ {target[m]}
  /\ late' = IF AboutToAdd(target[m])
             THEN late \cup {target[m]} ELSE late \ {target[m]}
  /\ kept' = kept \ {target[m]}
  /\ Goto(m, "idle")
  /\ target' = [target EXCEPT ![m] = NoNote]
  /\ Stir
  /\ UNCHANGED <<isRead, announcing, counter, missed, failures>>

\* The request fails at its UPDATE or its SREM, or dies.
MarkFails(m) ==
  /\ doing[m] # "idle"
  /\ Failure
  /\ kept' = IF doing[m] = "srem" THEN kept \cup {target[m]} ELSE kept
  /\ Goto(m, "idle")
  /\ target' = [target EXCEPT ![m] = NoNote]
  /\ Stir
  /\ UNCHANGED <<isRead, unread, announcing, counter, missed, late>>

-----------------------------------------------------------------------------
UnreadNext ==
  \/ \E n \in Notes :
       \/ CreateNotificationRecord(n)
       \/ AddUnreadNotificationToRedis(n)
       \/ AddFails(n)
  \/ \E c \in Counters :
       \/ SCard(c) \/ SCardZero(c) \/ SelectUnread(c) \/ RefillUnread(c)
       \/ CountFails(c) \/ Answered(c)
  \/ \E m \in Markers :
       \/ \E n \in Notes : MarkAsRead(m, n)
       \/ UpdateIsRead(m) \/ SRemUnread(m) \/ MarkFails(m)

UnreadSpec == UnreadInit /\ [][UnreadNext]_unreadVars

-----------------------------------------------------------------------------
(* Properties                                                               *)

\* An unread row is in the set or about to be announced, whatever refills and
\* marks go on: only a failed SADD of that very id leaves it out, and then only
\* a refill brings it back (notification.go GetUnreadCount, MarkAsRead).
UnreadCounted == Unread \subseteq unread \cup announcing \cup missed

\* A read id is in the set only until the SREM of whoever marks it, after a
\* failed SREM, or when that SREM came while a creator or a refill was about to
\* add the id.  Marking it again mends both.
PhantomsExplained ==
  \A n \in unread :
    isRead[n] = "read" =>
      \/ \E m \in Markers : target[m] = n /\ doing[m] = "srem"
      \/ n \in kept \cup late

\* A request during which nobody creates or marks answers the number of unread
\* rows, unless an earlier overlap or failure left the set wrong.
CountExact ==
  \A c \in Counters :
    doing[c] = "done" /\ calm[c] /\ missed \cup late \cup kept = {}
      => count[c] = Cardinality(Unread)
=============================================================================
