-------------------------- MODULE UnreadSet_proofs --------------------------
(***************************************************************************)
(* Proofs about the unread set, for any notifications, any numbers of       *)
(* concurrent requests and any failures: no unread row is left out, no read *)
(* one stays without a cause, and the answer to a count that nobody         *)
(* disturbed is exact.                                                      *)
(***************************************************************************)
EXTENDS UnreadSet, FiniteSetTheorems, TLAPS

\* One creator, counter or marker moves, see Next.
CreatorStep(n) ==
  \/ CreateNotificationRecord(n) \/ AddUnreadNotificationToRedis(n) \/ AddFails(n)

CounterStep(c) ==
  \/ SCard(c) \/ SCardZero(c) \/ SelectUnread(c) \/ RefillUnread(c)
  \/ CountFails(c) \/ Answered(c)

MarkerStep(m) ==
  \/ \E n \in Notes : MarkAsRead(m, n)
  \/ UpdateIsRead(m) \/ SRemUnread(m) \/ MarkFails(m)

LEMMA NextSteps ==
  ASSUME UnreadNext
  PROVE  \/ \E n \in Notes : CreatorStep(n)
         \/ \E c \in Counters : CounterStep(c)
         \/ \E m \in Markers : MarkerStep(m)
  BY DEF UnreadNext, CreatorStep, CounterStep, MarkerStep
-----------------------------------------------------------------------------
\* Type correctness.

LEMMA CountType ==
  /\ Cardinality(Unread) \in Nat
  /\ \A S \in SUBSET Notes : Cardinality(S) \in Nat
  BY NotesAssumption, FS_Subset, FS_CardinalityType DEF Unread

LEMMA CreatorKeepsTypes ==
  ASSUME UnreadTypeOK, NEW n \in Notes, CreatorStep(n)
  PROVE  UnreadTypeOK'
<1> USE DEF UnreadTypeOK, Rows, Stir, Failure, counter, history
<1>1. CASE CreateNotificationRecord(n)
  BY <1>1 DEF CreateNotificationRecord
<1>2. CASE AddUnreadNotificationToRedis(n)
  BY <1>2 DEF AddUnreadNotificationToRedis
<1>3. CASE AddFails(n)
  BY <1>3 DEF AddFails
<1> QED
  BY <1>1, <1>2, <1>3 DEF CreatorStep

LEMMA CounterKeepsTypes ==
  ASSUME UnreadTypeOK, NEW c \in Counters, CounterStep(c)
  PROVE  UnreadTypeOK'
<1> USE CountType, GoroutinesAssumption
    DEF UnreadTypeOK, Rows, UnreadStages, Goto, Failure, counter, history
<1>1. CASE SCard(c)
  <2>1. Quiet \in BOOLEAN
    BY DEF Quiet
  <2> QED
    BY <1>1, <2>1 DEF SCard
<1>2. CASE SCardZero(c)
  <2>1. Quiet \in BOOLEAN
    BY DEF Quiet
  <2> QED
    BY <1>2, <2>1 DEF SCardZero
<1>3. CASE SelectUnread(c)
  BY <1>3 DEF SelectUnread, Unread
<1>4. CASE RefillUnread(c)
  BY <1>4 DEF RefillUnread
<1>5. CASE CountFails(c)
  BY <1>5 DEF CountFails
<1>6. CASE Answered(c)
  BY <1>6 DEF Answered
<1> QED
  BY <1>1, <1>2, <1>3, <1>4, <1>5, <1>6 DEF CounterStep

LEMMA MarkerKeepsTypes ==
  ASSUME UnreadTypeOK, NEW m \in Markers, MarkerStep(m)
  PROVE  UnreadTypeOK'
<1> USE NotesAssumption, GoroutinesAssumption
    DEF UnreadTypeOK, Rows, UnreadStages, Goto, Stir, Failure, counter, history
<1>1. CASE \E n \in Notes : MarkAsRead(m, n)
  BY <1>1 DEF MarkAsRead
<1>2. CASE UpdateIsRead(m)
  BY <1>2 DEF UpdateIsRead
<1>3. CASE SRemUnread(m)
  BY <1>3 DEF SRemUnread
<1>4. CASE MarkFails(m)
  BY <1>4 DEF MarkFails
<1> QED
  BY <1>1, <1>2, <1>3, <1>4 DEF MarkerStep

\* Only notifications with a row are in the set or about to be added to it, and
\* a marker has a notification exactly while it is at work (notification.go).
THEOREM UnreadTypeCorrect == UnreadSpec => []UnreadTypeOK
<1>1. UnreadInit => UnreadTypeOK
  BY GoroutinesAssumption DEF UnreadInit, UnreadTypeOK, UnreadStages, Rows
<1>2. UnreadTypeOK /\ [UnreadNext]_unreadVars => UnreadTypeOK'
  <2> SUFFICES ASSUME UnreadTypeOK, [UnreadNext]_unreadVars
               PROVE  UnreadTypeOK'
    OBVIOUS
  <2>1. CASE UnreadNext
    BY <2>1, NextSteps, CreatorKeepsTypes, CounterKeepsTypes, MarkerKeepsTypes
  <2>2. CASE UNCHANGED unreadVars
    BY <2>2 DEF UnreadTypeOK, Rows, unreadVars, counter, history
  <2> QED
    BY <2>1, <2>2
<1> QED
  BY <1>1, <1>2, PTL DEF UnreadSpec
-----------------------------------------------------------------------------
\* The inductive invariant.

\* Whoever is about to SREM an id has found or made its row read.
RemovesRead ==
  \A m \in Markers : doing[m] = "srem" => isRead[target[m]] = "read"

\* A read id that is in the set, or that somebody is about to add, is due to a
\* SREM that is still to come, that failed, or that came too early.
DebtExplained ==
  \A n \in Notes :
    isRead[n] = "read" /\ (n \in unread \/ AboutToAdd(n)) =>
      \/ \E m \in Markers : target[m] = n /\ doing[m] = "srem"
      \/ n \in kept \cup late

IInv == RemovesRead /\ UnreadCounted /\ DebtExplained

LEMMA CreatorKeepsInv ==
  ASSUME UnreadTypeOK, IInv, NEW n \in Notes, CreatorStep(n)
  PROVE  IInv'
<1> USE DEF UnreadTypeOK, Rows, Unread, IInv, RemovesRead, UnreadCounted, DebtExplained,
            AboutToAdd, Stir, Failure, counter, history
<1>1. CASE CreateNotificationRecord(n)
  BY <1>1 DEF CreateNotificationRecord
<1>2. CASE AddUnreadNotificationToRedis(n)
  BY <1>2 DEF AddUnreadNotificationToRedis
<1>3. CASE AddFails(n)
  BY <1>3 DEF AddFails
<1> QED
  BY <1>1, <1>2, <1>3 DEF CreatorStep

LEMMA CounterKeepsInv ==
  ASSUME UnreadTypeOK, IInv, NEW c \in Counters, CounterStep(c)
  PROVE  IInv'
<1> USE GoroutinesAssumption
    DEF UnreadTypeOK, Rows, Unread, IInv, RemovesRead, UnreadCounted, DebtExplained,
        AboutToAdd, Goto, Failure, counter, history
<1>1. CASE SCard(c)
  BY <1>1 DEF SCard
<1>2. CASE SCardZero(c)
  BY <1>2 DEF SCardZero
<1>3. CASE SelectUnread(c)
  BY <1>3 DEF SelectUnread
<1>4. CASE RefillUnread(c)
  BY <1>4 DEF RefillUnread
<1>5. CASE CountFails(c)
  BY <1>5 DEF CountFails
<1>6. CASE Answered(c)
  BY <1>6 DEF Answered
<1> QED
  BY <1>1, <1>2, <1>3, <1>4, <1>5, <1>6 DEF CounterStep

LEMMA MarkerKeepsInv ==
  ASSUME UnreadTypeOK, IInv, NEW m \in Markers, MarkerStep(m)
  PROVE  IInv'
<1> USE NotesAssumption, GoroutinesAssumption
    DEF UnreadTypeOK, Rows, Unread, IInv, RemovesRead, UnreadCounted, DebtExplained,
        AboutToAdd, Goto, Stir, Failure, counter, history
<1>1. CASE \E n \in Notes : MarkAsRead(m, n)
  BY <1>1 DEF MarkAsRead
<1>2. CASE UpdateIsRead(m)
  BY <1>2 DEF UpdateIsRead
<1>3. CASE SRemUnread(m)
  BY <1>3 DEF SRemUnread
<1>4. CASE MarkFails(m)
  BY <1>4 DEF MarkFails
<1> QED
  BY <1>1, <1>2, <1>3, <1>4 DEF MarkerStep

THEOREM UnreadInv == UnreadSpec => []IInv
<1>1. UnreadInit => IInv
  BY DEF UnreadInit, IInv, RemovesRead, UnreadCounted, DebtExplained, AboutToAdd, Unread
<1>2. UnreadTypeOK /\ IInv /\ [UnreadNext]_unreadVars => IInv'
  <2> SUFFICES ASSUME UnreadTypeOK, IInv, [UnreadNext]_unreadVars
               PROVE  IInv'
    OBVIOUS
  <2>1. CASE UnreadNext
    BY <2>1, NextSteps, CreatorKeepsInv, CounterKeepsInv, MarkerKeepsInv
  <2>2. CASE UNCHANGED unreadVars
    BY <2>2 DEF IInv, RemovesRead, UnreadCounted, DebtExplained, AboutToAdd, Unread,
                unreadVars, counter, history
  <2> QED
    BY <2>1, <2>2
<1> QED
  BY <1>1, <1>2, UnreadTypeCorrect, PTL DEF UnreadSpec

\* No unread notification is left out of the set for good except by the failure
\* of its own SADD, whatever runs at the same time (notification.go).
THEOREM UnreadNoneMissed == UnreadSpec => []UnreadCounted
<1>1. IInv => UnreadCounted
  BY DEF IInv
<1> QED
  BY <1>1, UnreadInv, PTL

\* No read notification stays in the set except by a failed SREM or by one that
\* came before a late SADD (notification.go GetUnreadCount, MarkAsRead).
THEOREM UnreadNoPhantoms == UnreadSpec => []PhantomsExplained
<1>1. UnreadTypeOK /\ IInv => PhantomsExplained
  BY DEF UnreadTypeOK, Rows, IInv, DebtExplained, PhantomsExplained
<1> QED
  BY <1>1, UnreadTypeCorrect, UnreadInv, PTL

-----------------------------------------------------------------------------
\* The count.

Clean == missed \cup late \cup kept = {}

\* A request that nobody disturbed has counted the unread rows, from its count
\* to its answer.
CalmCounts ==
  \A c \in Counters :
    doing[c] \in {"sadd", "done"} /\ calm[c] /\ Clean => count[c] = Cardinality(Unread)

\* A step of a creator or a marker ends the calm of every request.
LEMMA StirKeepsCounts ==
  ASSUME Stir
  PROVE  CalmCounts'
  BY DEF Stir, CalmCounts

\* Nobody is about to change row or set: the set holds the unread rows.
LEMMA QuietIsExact ==
  ASSUME UnreadTypeOK, IInv, Clean, Quiet
  PROVE  unread = Unread
<1>1. Unread \subseteq unread
  BY DEF IInv, UnreadCounted, Clean, Quiet
<1>2. ASSUME NEW n \in unread
      PROVE  n \in Unread
  <2>1. n \in Notes /\ isRead[n] # "none" /\ isRead[n] \in {"none", "unread", "read"}
    BY DEF UnreadTypeOK, Rows
  <2>2. isRead[n] # "read"
    BY <2>1 DEF IInv, DebtExplained, Clean, Quiet
  <2> QED
    BY <2>1, <2>2 DEF Unread
<1> QED
  BY <1>1, <1>2

LEMMA CounterKeepsCounts ==
  ASSUME UnreadTypeOK, IInv, CalmCounts, NEW c \in Counters, CounterStep(c)
  PROVE  CalmCounts'
<1> USE GoroutinesAssumption DEF Goto
<1>1. UNCHANGED <<isRead, missed, late, kept>>
  BY DEF CounterStep, SCard, SCardZero, SelectUnread, RefillUnread, CountFails, Answered,
         counter, history
<1>2. (Clean' <=> Clean) /\ Unread' = Unread
  BY <1>1 DEF Clean, Unread
\* The other requests stay as they are.
<1>3. \A d \in Counters \ {c} :
        doing'[d] = doing[d] /\ count'[d] = count[d] /\ (calm'[d] <=> calm[d])
  BY DEF UnreadTypeOK, CounterStep, SCard, SCardZero, SelectUnread, RefillUnread, CountFails,
         Answered,
         counter, history
<1>4. SUFFICES ASSUME doing'[c] \in {"sadd", "done"}, calm'[c], Clean
               PROVE  count'[c] = Cardinality(Unread)
  BY <1>2, <1>3 DEF CalmCounts
<1>5. CASE SCard(c)
  <2>1. count'[c] = Cardinality(unread)
    BY <1>5 DEF SCard, UnreadTypeOK
  <2>2. calm' = [calm EXCEPT ![c] = Quiet] /\ calm \in [Counters -> BOOLEAN]
    BY <1>5 DEF SCard, UnreadTypeOK
  <2>3. Quiet
    BY <1>4, <2>2, Zenon
  <2> QED
    BY <1>4, <2>1, <2>3, QuietIsExact
<1>6. CASE SCardZero(c) \/ CountFails(c) \/ Answered(c)
  BY <1>4, <1>6 DEF SCardZero, CountFails, Answered, UnreadTypeOK
<1>7. CASE SelectUnread(c)
  BY <1>7 DEF SelectUnread, UnreadTypeOK
<1>8. CASE RefillUnread(c)
  <2>1. doing[c] = "sadd" /\ count' = count /\ calm' = calm
    BY <1>8 DEF RefillUnread, history
  <2> QED
    BY <1>4, <2>1 DEF CalmCounts
<1> QED
  BY <1>5, <1>6, <1>7, <1>8 DEF CounterStep

\* GetUnreadCount answers the number of unread rows when nobody creates or marks
\* meanwhile, unless an earlier failure or overlap left the set wrong
\* (notification.go), for any notifications and goroutines.
THEOREM UnreadCountExact == UnreadSpec => []CountExact
<1>1. UnreadInit => CalmCounts
  BY GoroutinesAssumption DEF UnreadInit, CalmCounts
<1>2. UnreadTypeOK /\ IInv /\ CalmCounts /\ [UnreadNext]_unreadVars => CalmCounts'
  <2> SUFFICES ASSUME UnreadTypeOK, IInv, CalmCounts, [UnreadNext]_unreadVars
               PROVE  CalmCounts'
    OBVIOUS
  <2>1. ASSUME NEW n \in Notes, CreatorStep(n)
        PROVE  Stir
    BY <2>1 DEF CreatorStep, CreateNotificationRecord, AddUnreadNotificationToRedis, AddFails
  <2>2. ASSUME NEW m \in Markers, MarkerStep(m)
        PROVE  Stir
    BY <2>2 DEF MarkerStep, MarkAsRead, UpdateIsRead, SRemUnread, MarkFails
  <2>3. CASE UNCHANGED unreadVars
    BY <2>3 DEF CalmCounts, Clean, Unread, unreadVars, counter, history
  <2> QED
    BY <2>1, <2>2, <2>3, NextSteps, StirKeepsCounts, CounterKeepsCounts
<1>3. CalmCounts => CountExact
  BY DEF CalmCounts, CountExact, Clean
<1> QED
  BY <1>1, <1>2, <1>3, UnreadTypeCorrect, UnreadInv, PTL DEF UnreadSpec
=============================================================================
