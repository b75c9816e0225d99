----------------------- MODULE NotificationRetry_proofs -----------------------
(***************************************************************************)
(* Proofs about the notification retry queue, for any notifications, any    *)
(* finite set of workers and any bounds: the types, that no notification    *)
(* is lost unaccounted for, that none is stored twice without a cause, that *)
(* the unread set gets the id of every row while nothing fails, that no     *)
(* notification is tried beyond its limit, and that the workers use their   *)
(* lock as the lease of DistLock.                                           *)
(***************************************************************************)
EXTENDS NotificationRetry, Integers, SequencesExt, SequenceTheorems, FiniteSetTheorems, TLAPS

-----------------------------------------------------------------------------
(* What RPUSH, a pop at the left end and LREM 1 do to the number of elements *)
(* of a set that a list holds.                                              *)

\* The positions of s that hold an element of S, and their number.
Places(s, S) == {i \in 1..Len(s) : s[i] \in S}
CountIn(s, S) == Cardinality(Places(s, S))

Bit(b) == IF b THEN 1 ELSE 0

LEMMA CountType ==
  ASSUME NEW T, NEW s \in Seq(T), NEW S
  PROVE  IsFiniteSet(Places(s, S)) /\ CountIn(s, S) \in Nat
<1>1. IsFiniteSet(1..Len(s))
  BY FS_Interval
<1>2. IsFiniteSet(Places(s, S))
  BY <1>1, FS_Subset DEF Places
<1> QED
  BY <1>2, FS_CardinalityType DEF CountIn

LEMMA CountAppend ==
  ASSUME NEW T, NEW s \in Seq(T), NEW e \in T, NEW S
  PROVE  CountIn(Append(s, e), S) = CountIn(s, S) + Bit(e \in S)
<1> DEFINE k == Len(s) + 1
<1>1. /\ Len(Append(s, e)) = k
      /\ Append(s, e)[k] = e
      /\ \A i \in 1..Len(s) : Append(s, e)[i] = s[i]
  OBVIOUS
<1>2. IsFiniteSet(Places(s, S)) /\ CountIn(s, S) \in Nat
  BY CountType
<1>3. CASE e \in S
  <2>1. Places(Append(s, e), S) = Places(s, S) \cup {k}
    BY <1>1, <1>3 DEF Places
  <2>2. k \notin Places(s, S)
    BY DEF Places
  <2> QED
    BY <1>2, <1>3, <2>1, <2>2, FS_AddElement DEF CountIn, Bit
<1>4. CASE e \notin S
  <2>1. Places(Append(s, e), S) = Places(s, S)
    BY <1>1, <1>4 DEF Places
  <2> QED
    BY <1>2, <1>4, <2>1 DEF CountIn, Bit
<1> QED
  BY <1>3, <1>4

\* t is s without its element at position k.
LEMMA CountWithout ==
  ASSUME NEW T, NEW s \in Seq(T), NEW t \in Seq(T), NEW S, NEW k \in 1..Len(s),
         Len(t) = Len(s) - 1,
         \A j \in 1..Len(t) : t[j] = IF j < k THEN s[j] ELSE s[j + 1]
  PROVE  CountIn(t, S) = CountIn(s, S) - Bit(s[k] \in S)
<1> DEFINE P == Places(s, S) \ {k}
           f == [j \in Places(t, S) |-> IF j < k THEN j ELSE j + 1]
<1>1. f \in Bijection(Places(t, S), P)
  <2>1. f \in [Places(t, S) -> P]
    BY DEF Places
  <2>2. \A a, b \in Places(t, S) : f[a] = f[b] => a = b
    BY DEF Places
  <2>3. \A i \in P : \E j \in Places(t, S) : f[j] = i
    <3> SUFFICES ASSUME NEW i \in P
                 PROVE  \E j \in Places(t, S) : f[j] = i
      OBVIOUS
    <3>1. CASE i < k
      BY <3>1 DEF Places
    <3>2. CASE i > k
      <4>1. i - 1 \in Places(t, S)
        BY <3>2 DEF Places
      <4> QED
        BY <3>2, <4>1 DEF Places
    <3>3. i < k \/ i > k
      BY DEF Places
    <3> QED
      BY <3>1, <3>2, <3>3
  <2> QED
    BY <2>1, <2>2, <2>3 DEF Bijection, Injection, Surjection, IsInjective
<1>2. IsFiniteSet(Places(s, S)) /\ IsFiniteSet(Places(t, S)) /\ CountIn(s, S) \in Nat
  BY CountType
<1>3. Cardinality(P) = CountIn(t, S)
  BY <1>1, <1>2, FS_Bijection DEF ExistsBijection, CountIn
<1>4. Cardinality(P) = CountIn(s, S) - Bit(s[k] \in S)
  <2>1. k \in Places(s, S) <=> s[k] \in S
    BY DEF Places
  <2>2. Cardinality(P) = IF k \in Places(s, S) THEN CountIn(s, S) - 1 ELSE CountIn(s, S)
    BY <1>2, FS_RemoveElement DEF CountIn
  <2> HIDE DEF P
  <2> QED
    BY <1>2, <2>1, <2>2 DEF Bit
<1> QED
  BY <1>3, <1>4

LEMMA CountTail ==
  ASSUME NEW T, NEW s \in Seq(T), s # <<>>, NEW S
  PROVE  /\ Head(s) \in T
         /\ Tail(s) \in Seq(T)
         /\ CountIn(Tail(s), S) = CountIn(s, S) - Bit(Head(s) \in S)
<1>1. /\ Tail(s) \in Seq(T) /\ Len(Tail(s)) = Len(s) - 1
      /\ 1 \in 1..Len(s) /\ Head(s) = s[1]
  OBVIOUS
<1>2. \A j \in 1..Len(Tail(s)) : Tail(s)[j] = IF j < 1 THEN s[j] ELSE s[j + 1]
  OBVIOUS
<1>3. CountIn(Tail(s), S) = CountIn(s, S) - Bit(s[1] \in S)
  <2> DEFINE t == Tail(s)
  <2>1. /\ t \in Seq(T) /\ Len(t) = Len(s) - 1
        /\ \A j \in 1..Len(t) : t[j] = IF j < 1 THEN s[j] ELSE s[j + 1]
    BY <1>1, <1>2
  <2> HIDE DEF t
  <2>2. CountIn(t, S) = CountIn(s, S) - Bit(s[1] \in S)
    BY <1>1, <2>1, CountWithout
  <2> QED
    BY <2>2 DEF t
<1> QED
  BY <1>1, <1>3

\* RemoveFirst is LREM 1: it takes the first element equal to e, if any.
LEMMA RemoveFirstCases ==
  ASSUME NEW T, NEW s \in Seq(T), NEW e
  PROVE  \/ RemoveFirst(s, e) = s
         \/ \E k \in 1..Len(s) :
              /\ s[k] = e
              /\ RemoveFirst(s, e) \in Seq(T)
              /\ Len(RemoveFirst(s, e)) = Len(s) - 1
              /\ \A j \in 1..Len(RemoveFirst(s, e)) :
                   RemoveFirst(s, e)[j] = IF j < k THEN s[j] ELSE s[j + 1]
<1> DEFINE I == {i \in 1..Len(s) : s[i] = e}
<1>1. CASE I = {}
  BY <1>1 DEF RemoveFirst
<1>2. CASE I # {}
  <2>1. PICK k \in I : \A i \in I : k <= i
    <3> DEFINE N == 1..Len(s)
               R == StrictSubsetOrdering(N)
               J == {1..i : i \in I}
    <3>1. IsFiniteSet(N)
      BY FS_Interval
    <3>2. IsWellFoundedOn(R, FiniteSubsetsOf(N))
      BY <3>1, FS_StrictSubsetOrderingWellFounded
    <3>3. J \subseteq FiniteSubsetsOf(N) /\ J # {}
      <4>1. ASSUME NEW i \in I
            PROVE  1..i \subseteq N /\ IsFiniteSet(1..i)
        BY FS_Interval
      <4> QED
        BY <1>2, <4>1 DEF FiniteSubsetsOf
    <3>4. PICK x \in J : \A y \in J : <<y, x>> \notin R
      <4> HIDE DEF R, J
      <4> QED
        BY <3>2, <3>3, WFMin
    <3>5. PICK k \in I : x = 1..k
      OBVIOUS
    <3>6. ASSUME NEW i \in I, i < k
          PROVE  FALSE
      <4>1. /\ 1..i \in J /\ 1..i \subseteq 1..k /\ k \in 1..k /\ k \notin 1..i
            /\ 1..i \in SUBSET N /\ 1..k \in SUBSET N
        BY <3>6
      <4>2. <<1..i, 1..k>> \in R
        BY <3>3, <4>1, <3>5 DEF StrictSubsetOrdering
      <4> QED
        BY <3>4, <3>5, <4>1, <4>2
    <3> QED
      BY <3>6
  <2>2. Min(I) \in I
    BY <2>1 DEF Min
  <2> DEFINE m == Min(I)
  <2>3. RemoveFirst(s, e) = SubSeq(s, 1, m - 1) \o SubSeq(s, m + 1, Len(s))
    BY <1>2 DEF RemoveFirst, RemoveAt, SelectInSeq
  <2>4. m \in 1..Len(s) /\ s[m] = e
    BY <2>2
  <2> HIDE DEF m
  <2>5. /\ SubSeq(s, 1, m - 1) \in Seq(T) /\ Len(SubSeq(s, 1, m - 1)) = m - 1
        /\ \A i \in 1..(m - 1) : SubSeq(s, 1, m - 1)[i] = s[i]
    BY <2>4
  <2>6. /\ SubSeq(s, m + 1, Len(s)) \in Seq(T)
        /\ Len(SubSeq(s, m + 1, Len(s))) = Len(s) - m
        /\ \A i \in 1..(Len(s) - m) : SubSeq(s, m + 1, Len(s))[i] = s[m + i]
    BY <2>4
  <2> DEFINE t == RemoveFirst(s, e)
             a == SubSeq(s, 1, m - 1)
             b == SubSeq(s, m + 1, Len(s))
  <2>7. /\ t = a \o b
        /\ a \in Seq(T) /\ Len(a) = m - 1 /\ \A i \in 1..(m - 1) : a[i] = s[i]
        /\ b \in Seq(T) /\ Len(b) = Len(s) - m
        /\ \A i \in 1..(Len(s) - m) : b[i] = s[m + i]
    BY <2>3, <2>5, <2>6
  <2> HIDE DEF t, a, b
  <2>8. /\ t \in Seq(T) /\ Len(t) = Len(s) - 1
        /\ \A j \in 1..Len(t) : t[j] = IF j < m THEN s[j] ELSE s[j + 1]
    <3>1. /\ a \o b \in Seq(T)
          /\ Len(a \o b) = Len(a) + Len(b)
          /\ \A j \in 1..(Len(a) + Len(b)) :
               (a \o b)[j] = IF j <= Len(a) THEN a[j] ELSE b[j - Len(a)]
      BY <2>7, ConcatProperties
    <3>2. t \in Seq(T) /\ Len(t) = Len(s) - 1
      BY <2>4, <2>7, <3>1
    <3>3. ASSUME NEW j \in 1..(Len(s) - 1)
          PROVE  t[j] = IF j < m THEN s[j] ELSE s[j + 1]
      <4>1. t[j] = IF j <= Len(a) THEN a[j] ELSE b[j - Len(a)]
        <5>1. Len(a) + Len(b) = Len(s) - 1
          BY <2>4, <2>7
        <5>2. j \in 1..(Len(a) + Len(b))
          BY <5>1
        <5>3. (a \o b)[j] = IF j <= Len(a) THEN a[j] ELSE b[j - Len(a)]
          BY <3>1, <5>2
        <5> QED
          BY <2>7, <5>3
      <4>2. CASE j < m
        BY <2>4, <2>7, <4>1, <4>2
      <4>3. CASE j >= m
        <5>1. j - (m - 1) \in 1..(Len(s) - m)
          BY <2>4, <4>3
        <5> QED
          BY <2>4, <2>7, <4>1, <4>3, <5>1
      <4> QED
        BY <2>4, <4>2, <4>3
    <3> QED
      BY <3>2, <3>3
  <2>9. t = RemoveFirst(s, e)
    BY DEF t
  <2> QED
    BY <2>4, <2>8, <2>9
<1> QED
  BY <1>1, <1>2

LEMMA CountRemoveFirst ==
  ASSUME NEW T, NEW s \in Seq(T), NEW e, NEW S
  PROVE  /\ RemoveFirst(s, e) \in Seq(T)
         /\ CountIn(RemoveFirst(s, e), S) <= CountIn(s, S)
         /\ CountIn(RemoveFirst(s, e), S) >= CountIn(s, S) - Bit(e \in S)
<1> DEFINE t == RemoveFirst(s, e)
<1>1. CountIn(s, S) \in Nat
  BY CountType
<1> HIDE DEF t
<1>2. CASE t = s
  BY <1>1, <1>2 DEF Bit, t
<1>3. ASSUME NEW k \in 1..Len(s), s[k] = e, t \in Seq(T), Len(t) = Len(s) - 1,
             \A j \in 1..Len(t) : t[j] = IF j < k THEN s[j] ELSE s[j + 1]
      PROVE  CountIn(t, S) = CountIn(s, S) - Bit(e \in S)
  <2>1. CountIn(t, S) = CountIn(s, S) - Bit(s[k] \in S)
    BY <1>3, CountWithout
  <2> QED
    BY <1>3, <2>1
<1>4. \/ t = s
      \/ /\ t \in Seq(T)
         /\ CountIn(t, S) = CountIn(s, S) - Bit(e \in S)
  BY <1>3, RemoveFirstCases DEF t
<1> QED
  BY <1>1, <1>2, <1>4 DEF Bit, t

-----------------------------------------------------------------------------
(* The payloads in a list.                                                  *)

\* A list of payloads, counted with the operators above.
About(n) == {p \in Payload : p.notice = n}

LEMMA CopiesCount ==
  ASSUME NEW s \in Seq(Payload), NEW n
  PROVE  Copies(s, n) = CountIn(s, About(n)) /\ Copies(s, n) \in Nat
<1>1. \A i \in 1..Len(s) : s[i] \in Payload
  OBVIOUS
<1>2. {i \in DOMAIN s : s[i].notice = n} = Places(s, About(n))
  BY <1>1 DEF Places, About
<1>3. CountIn(s, About(n)) \in Nat
  BY CountType
<1> QED
  BY <1>2, <1>3 DEF Copies, CountIn

LEMMA CopiesAppend ==
  ASSUME NEW s \in Seq(Payload), NEW p \in Payload, NEW n
  PROVE  /\ Append(s, p) \in Seq(Payload)
         /\ Copies(Append(s, p), n) = Copies(s, n) + Bit(p.notice = n)
<1>1. Append(s, p) \in Seq(Payload)
  OBVIOUS
<1>2. p \in About(n) <=> p.notice = n
  BY DEF About
<1>3. CountIn(Append(s, p), About(n)) = CountIn(s, About(n)) + Bit(p \in About(n))
  BY CountAppend
<1> QED
  BY <1>1, <1>2, <1>3, CopiesCount DEF Bit

LEMMA CopiesTail ==
  ASSUME NEW s \in Seq(Payload), s # <<>>, NEW n
  PROVE  /\ Head(s) \in Payload /\ Tail(s) \in Seq(Payload)
         /\ Copies(Tail(s), n) = Copies(s, n) - Bit(Head(s).notice = n)
<1>1. Head(s) \in Payload /\ Tail(s) \in Seq(Payload)
  OBVIOUS
<1>2. Head(s) \in About(n) <=> Head(s).notice = n
  BY <1>1 DEF About
<1>3. CountIn(Tail(s), About(n)) = CountIn(s, About(n)) - Bit(Head(s) \in About(n))
  BY CountTail
<1> QED
  BY <1>1, <1>2, <1>3, CopiesCount DEF Bit

LEMMA CopiesRemoveFirst ==
  ASSUME NEW s \in Seq(Payload), NEW p \in Payload, NEW n
  PROVE  /\ RemoveFirst(s, p) \in Seq(Payload)
         /\ Copies(RemoveFirst(s, p), n) <= Copies(s, n)
         /\ Copies(RemoveFirst(s, p), n) >= Copies(s, n) - Bit(p.notice = n)
<1>1. RemoveFirst(s, p) \in Seq(Payload)
  BY CountRemoveFirst
<1>2. p \in About(n) <=> p.notice = n
  BY DEF About
<1>3. /\ CountIn(RemoveFirst(s, p), About(n)) <= CountIn(s, About(n))
      /\ CountIn(RemoveFirst(s, p), About(n)) >= CountIn(s, About(n)) - Bit(p \in About(n))
  BY CountRemoveFirst
<1> QED
  BY <1>1, <1>2, <1>3, CopiesCount DEF Bit

\* A step of one worker moves that worker alone in or out of Holding.
LEMMA HeldMoves ==
  ASSUME NEW n, NEW S, NEW w \in Workers,
         \A v \in Workers \ {w} : at'[v] = at[v] /\ raw'[v] = raw[v]
  PROVE  /\ Held(n, S) \in Nat /\ Held(n, S)' \in Nat
         /\ Held(n, S)' = Held(n, S)
                            - Bit(at[w] \in S /\ raw[w].notice = n)
                            + Bit(at'[w] \in S /\ raw'[w].notice = n)
<1> DEFINE H == Holding(n, S)
           K == {v \in Workers : at'[v] \in S /\ raw'[v].notice = n}
           in  == at[w] \in S /\ raw[w].notice = n
           out == at'[w] \in S /\ raw'[w].notice = n
<1>1. IsFiniteSet(H) /\ IsFiniteSet(K)
  BY WorkersAssumption, FS_Subset DEF Holding
<1>2. Cardinality(H) \in Nat /\ Cardinality(K) \in Nat
  BY <1>1, FS_CardinalityType
<1>3. H \ {w} = K \ {w}
  BY DEF Holding
<1>4. Cardinality(H \ {w}) = Cardinality(H) - Bit(in)
  <2>1. w \in H <=> in
    BY DEF Holding
  <2>2. Cardinality(H \ {w}) = IF w \in H THEN Cardinality(H) - 1 ELSE Cardinality(H)
    BY <1>1, FS_RemoveElement
  <2> HIDE DEF H, in
  <2> QED
    BY <1>2, <2>1, <2>2 DEF Bit
<1>5. Cardinality(K \ {w}) = Cardinality(K) - Bit(out)
  <2>1. w \in K <=> out
    OBVIOUS
  <2>2. Cardinality(K \ {w}) = IF w \in K THEN Cardinality(K) - 1 ELSE Cardinality(K)
    BY <1>1, FS_RemoveElement
  <2> HIDE DEF K, out
  <2> QED
    BY <1>2, <2>1, <2>2 DEF Bit
<1>6. Held(n, S) = Cardinality(H) /\ Held(n, S)' = Cardinality(K)
  BY DEF Held, Holding
<1> HIDE DEF H, K, in, out
<1>7. Cardinality(K) = Cardinality(H) - Bit(in) + Bit(out)
  BY <1>2, <1>3, <1>4, <1>5 DEF Bit
<1> QED
  BY <1>2, <1>6, <1>7 DEF in, out
-----------------------------------------------------------------------------
\* Type correctness, one group of actions at a time.

LEMMA CountsMove ==
  /\ \A f \in Counts, n \in Notices : Inc(f, n) \in Counts
  /\ \A f \in Counts, n \in Notices : f[n] > 0 => Dec(f, n) \in Counts
  BY DEF Counts, Inc, Dec

LEMMA CallKeepsTypes ==
  ASSUME TypeOK, NEW n \in Notices, CallStep(n)
  PROVE  TypeOK'
<1> USE CountsMove DEF TypeOK, Fault, lockVars, lists, tables, calls, workers,
                       history
<1>1. UNCHANGED <<lockVars, workers>>
  BY DEF CallStep, Call, InsertOK, InsertRejected, InsertReplyLost, Announce,
         Enqueue, CallFails
<1>2. Lk!TypeOK' /\ WorkersOK'
  BY <1>1 DEF Lk!TypeOK, WorkersOK
<1>3. CASE Call(n)
  BY <1>2, <1>3 DEF Call
<1>4. CASE InsertOK(n)
  BY <1>2, <1>4 DEF InsertOK
<1>5. CASE InsertRejected(n)
  BY <1>2, <1>5 DEF InsertRejected
<1>6. CASE InsertReplyLost(n)
  BY <1>2, <1>6 DEF InsertReplyLost
<1>7. CASE Announce(n)
  BY <1>2, <1>7 DEF Announce
<1>8. CASE Enqueue(n)
  <2>1. [notice |-> n, retryCount |-> 0] \in Payload
    BY DEF Payload
  <2>2. queue' \in Seq(Payload)
    BY <1>8, <2>1, AppendProperties DEF Enqueue
  <2> QED
    BY <1>2, <1>8, <2>2 DEF Enqueue
<1>9. CASE CallFails(n)
  BY <1>2, <1>9 DEF CallFails
<1> QED
  BY <1>3, <1>4, <1>5, <1>6, <1>7, <1>8, <1>9 DEF CallStep

\* Every action of the lock keeps the types of its two variables.
LEMMA LockKeepsTypes ==
  ASSUME Lk!TypeOK, NEW w \in Workers,
         \/ Lk!TryLock(w) \/ Lk!TryLockBusy(w) \/ Lk!TryLockReplyLost(w)
         \/ Lk!Unlock(w) \/ Lk!Abandon(w) \/ Lk!Expire
         \/ UNCHANGED lockVars
  PROVE  Lk!TypeOK'
  BY DEF Lk!TypeOK, Lk!TryLock, Lk!TryLockBusy, Lk!TryLockReplyLost, Lk!Unlock,
         Lk!Abandon, Lk!Expire, Lk!SetNX, Lk!RandomTokens, Lk!UnlockWithToken,
         Lk!vars, lockVars

\* A message that a worker has in hand is a payload.
LEMMA InHand ==
  ASSUME WorkersOK, NEW w \in Workers,
         at[w] \notin {"tick", "dequeue", "unlock"}
  PROVE  /\ raw[w] \in Payload
         /\ raw[w].notice \in Notices
         /\ raw[w].retryCount \in Nat
  BY DEF WorkersOK, Payload

\* The three ways in which a worker moves on keep WorkersOK.
LEMMA WorkerMoves ==
  ASSUME WorkersOK, NEW w \in Workers, NEW stage \in Stages
  PROVE  /\ /\ Goto(w, stage) /\ raw' = raw
            /\ at[w] \in {"tick", "dequeue", "unlock"}
                 <=> stage \in {"tick", "dequeue", "unlock"}
            => WorkersOK'
         /\ /\ Done(w, stage) /\ stage \in {"tick", "unlock"}
            => WorkersOK'
         /\ \A p \in Payload :
              Goto(w, "create") /\ raw' = [raw EXCEPT ![w] = p] => WorkersOK'
<1>1. ASSUME Goto(w, stage), raw' = raw,
             at[w] \in {"tick", "dequeue", "unlock"}
               <=> stage \in {"tick", "dequeue", "unlock"}
      PROVE  WorkersOK'
  BY <1>1 DEF WorkersOK, Goto
<1>2. ASSUME Done(w, stage), stage \in {"tick", "unlock"}
      PROVE  WorkersOK'
  BY <1>2 DEF WorkersOK, Done
<1>3. ASSUME NEW p \in Payload, Goto(w, "create"), raw' = [raw EXCEPT ![w] = p]
      PROVE  WorkersOK'
  BY <1>3, PayloadAssumption DEF WorkersOK, Goto, Stages
<1> QED
  BY <1>1, <1>2, <1>3

LEMMA WorkerKeepsTypes ==
  ASSUME TypeOK, NEW w \in Workers, WorkerStep(w) \/ WorkerFault(w)
  PROVE  TypeOK'
<1> USE CountsMove DEF TypeOK, Fault, lockVars, lists, tables, calls, history
<1>0. \A s \in {"tick", "dequeue", "create", "ackDone", "announce", "ackFailed",
                "requeue", "unlock"} : s \in Stages
  BY DEF Stages
<1>1. Lk!TypeOK'
  BY LockKeepsTypes
     DEF WorkerStep, WorkerFault, TryLock, SkipTick, TryLockReplyLost, Dequeue,
         DequeueEmpty, CreateOK, CreateRejected, CreateReplyLost, AckDone,
         AnnounceRetried, AckFailed, Requeue, Unlock, ReturnError, Crash
<1>2. CASE TryLock(w)
  BY <1>0, <1>1, <1>2, WorkerMoves DEF TryLock
<1>3. CASE SkipTick(w) \/ TryLockReplyLost(w)
  BY <1>1, <1>3 DEF SkipTick, TryLockReplyLost, workers, WorkersOK
<1>4. CASE Dequeue(w)
  <2>1. /\ Head(queue) \in Payload /\ Tail(queue) \in Seq(Payload)
        /\ processing' \in Seq(Payload)
    BY <1>4, HeadTailProperties, AppendProperties DEF Dequeue
  <2> QED
    BY <1>0, <1>1, <1>4, <2>1, WorkerMoves DEF Dequeue
<1>5. CASE DequeueEmpty(w)
  BY <1>0, <1>1, <1>5, WorkerMoves DEF DequeueEmpty
<1>6. CASE CreateOK(w)
  BY <1>0, <1>1, <1>6, WorkerMoves, InHand DEF CreateOK
<1>7. CASE CreateRejected(w)
  BY <1>0, <1>1, <1>7, WorkerMoves, InHand DEF CreateRejected
<1>8. CASE CreateReplyLost(w)
  BY <1>0, <1>1, <1>8, WorkerMoves, InHand DEF CreateReplyLost
<1>9. CASE AckDone(w)
  <2>1. processing' \in Seq(Payload)
    BY <1>9, InHand, CopiesRemoveFirst DEF AckDone
  <2> QED
    BY <1>0, <1>1, <1>9, <2>1, WorkerMoves DEF AckDone
<1>10. CASE AnnounceRetried(w)
  BY <1>0, <1>1, <1>10, WorkerMoves, InHand DEF AnnounceRetried
<1>11. CASE AckFailed(w)
  <2>1. processing' \in Seq(Payload)
    BY <1>11, InHand, CopiesRemoveFirst DEF AckFailed
  <2> QED
    BY <1>0, <1>1, <1>11, <2>1, WorkerMoves DEF AckFailed
<1>12. CASE Requeue(w)
  <2>1. raw[w].notice \in Notices /\ raw[w].retryCount \in Nat
    BY <1>12, InHand DEF Requeue
  <2>2. Retried(raw[w]) \in Payload
    BY <2>1 DEF Retried, Payload
  <2>3. \/ queue' = Append(queue, Retried(raw[w])) /\ dead' = dead
        \/ dead' = Append(dead, Retried(raw[w])) /\ queue' = queue
    BY <1>12 DEF Requeue
  <2>4. queue' \in Seq(Payload) /\ dead' \in Seq(Payload)
    <3>1. \A q \in Seq(Payload) : Append(q, Retried(raw[w])) \in Seq(Payload)
      BY <2>2, AppendProperties
    <3> QED
      BY <2>3, <3>1
  <2> QED
    BY <1>0, <1>1, <1>12, <2>4, WorkerMoves DEF Requeue
<1>13. CASE Unlock(w)
  BY <1>0, <1>1, <1>13, WorkerMoves DEF Unlock
<1>14. at[w] # "tick" /\ DropHeld(w) => dropped' \in Counts
  BY InHand DEF DropHeld
<1>15. CASE ReturnError(w)
  BY <1>0, <1>1, <1>14, <1>15, WorkerMoves DEF ReturnError
<1>16. CASE Crash(w)
  BY <1>0, <1>1, <1>14, <1>16, WorkerMoves DEF Crash
<1> QED
  BY <1>2, <1>3, <1>4, <1>5, <1>6, <1>7, <1>8, <1>9, <1>10, <1>11, <1>12,
     <1>13, <1>15, <1>16 DEF WorkerStep, WorkerFault

\* The lists hold payloads, the counters are natural numbers, and a worker has
\* a message in hand exactly from its LMOVE to the end of its tick (retry.go).
THEOREM RetryTypeCorrect == Spec => []TypeOK
<1>1. Init => TypeOK
  BY DEF Init, TypeOK, WorkersOK, None, Counts, Stages, Lk!Init, Lk!TypeOK
<1>2. TypeOK /\ [Next]_vars => TypeOK'
  <2> SUFFICES ASSUME TypeOK, [Next]_vars
               PROVE  TypeOK'
    OBVIOUS
  <2>1. CASE \E n \in Notices : CallStep(n)
    BY <2>1, CallKeepsTypes
  <2>2. CASE \E w \in Workers : WorkerStep(w) \/ WorkerFault(w)
    BY <2>2, WorkerKeepsTypes
  <2>3. CASE LockExpires
    BY <2>3 DEF TypeOK, WorkersOK, LockExpires, Lk!Expire, Lk!TypeOK, workers,
                lists, tables, calls, history
  <2>4. CASE Recover
    <3>1. /\ processing \in Seq(Payload) /\ queue \in Seq(Payload)
          /\ processing # <<>>
          /\ replayed \in Counts
          /\ processing' = Tail(processing)
          /\ queue' = Append(queue, Head(processing))
          /\ replayed' = Inc(replayed, Head(processing).notice)
      BY <2>4 DEF TypeOK, Recover
    <3>2. Head(processing) \in Payload /\ Tail(processing) \in Seq(Payload)
      BY <3>1, HeadTailProperties
    <3>3. processing' \in Seq(Payload) /\ queue' \in Seq(Payload)
      BY <3>1, <3>2
    <3>4. replayed' \in Counts
      BY <3>1, <3>2 DEF Counts, Inc, Payload
    <3> QED
      BY <2>4, <3>3, <3>4 DEF TypeOK, WorkersOK, Recover, lockVars, tables,
                              calls, workers, Lk!TypeOK
  <2>5. CASE UNCHANGED vars
    BY <2>5 DEF TypeOK, WorkersOK, vars, lockVars, lists, tables, calls, workers, history,
                Lk!TypeOK
  <2> QED
    BY <2>1, <2>2, <2>3, <2>4, <2>5 DEF Next
<1> QED
  BY <1>1, <1>2, PTL DEF Spec
-----------------------------------------------------------------------------
\* The two ledgers.  Every term of them is a natural number, and every step
\* moves one message from one term to another.

LEMMA CountsAt ==
  \A f \in Counts, m, n \in Notices :
    /\ f[n] \in Nat
    /\ Inc(f, m)[n] = f[n] + Bit(m = n)
    /\ Dec(f, m)[n] = f[n] - Bit(m = n)
  BY DEF Counts, Inc, Dec, Bit

LEMMA HeldType ==
  ASSUME NEW n, NEW S
  PROVE  Held(n, S) \in Nat
<1>1. IsFiniteSet(Holding(n, S))
  BY WorkersAssumption, FS_Subset DEF Holding
<1> QED
  BY <1>1, FS_CardinalityType DEF Held

LEMMA HeldSame ==
  ASSUME NEW n, NEW S, UNCHANGED workers
  PROVE  Held(n, S)' = Held(n, S)
  BY DEF Held, Holding, workers

\* What both ledgers say of one notification.
Books(n) ==
  /\ requested[n] + Held(n, {"ackDone"})
       <= inserting[n] + enqueuing[n] + Copies(queue, n) + Copies(processing, n)
            + Copies(dead, n) + Held(n, {"requeue"}) + rows[n]
            + unsaved[n] + dropped[n]
  /\ inserting[n] + enqueuing[n] + Copies(queue, n) + Copies(dead, n)
       + Held(n, {"create", "ackFailed", "requeue"}) + rows[n]
     <= requested[n] + replayed[n]

\* All terms of Books are natural numbers.
Terms(n) ==
  /\ requested[n] \in Nat /\ inserting[n] \in Nat /\ enqueuing[n] \in Nat
  /\ announcing[n] \in Nat
  /\ Copies(queue, n) \in Nat /\ Copies(processing, n) \in Nat
  /\ Copies(dead, n) \in Nat /\ rows[n] \in Nat /\ unsaved[n] \in Nat
  /\ dropped[n] \in Nat /\ replayed[n] \in Nat
  /\ Held(n, {"ackDone"}) \in Nat /\ Held(n, {"requeue"}) \in Nat
  /\ Held(n, {"create", "ackFailed", "requeue"}) \in Nat

LEMMA TermsType ==
  ASSUME TypeOK, NEW n \in Notices
  PROVE  Terms(n)
  BY CountsAt, HeldType, CopiesCount DEF TypeOK, Terms

LEMMA CallKeepsBooks ==
  ASSUME TypeOK, NEW m \in Notices, CallStep(m), NEW n \in Notices, Books(n)
  PROVE  Books(n)'
<1> DEFINE b == Bit(m = n)
<1>1. b \in {0, 1}
  BY DEF Bit
<1>2. Terms(n)
  BY TermsType
<1>3. /\ UNCHANGED <<workers, processing, dead, dropped>>
      /\ Held(n, {"ackDone"})' = Held(n, {"ackDone"})
      /\ Held(n, {"requeue"})' = Held(n, {"requeue"})
      /\ Held(n, {"create", "ackFailed", "requeue"})'
           = Held(n, {"create", "ackFailed", "requeue"})
  BY HeldSame
     DEF CallStep, Call, InsertOK, InsertRejected, InsertReplyLost, Announce,
         Enqueue, CallFails, lists, history
<1> HIDE DEF b
<1>4. CASE Call(m)
  <2>1. /\ requested'[n] = requested[n] + b /\ inserting'[n] = inserting[n] + b
        /\ UNCHANGED <<queue, enqueuing, rows, unsaved, replayed>>
    BY <1>4, CountsAt DEF TypeOK, lists, tables, history, Call, b
  <2> QED
    BY <1>1, <1>2, <1>3, <2>1 DEF Books, Terms
<1>5. CASE InsertOK(m)
  <2>1. /\ inserting'[n] = inserting[n] - b /\ rows'[n] = rows[n] + b
        /\ UNCHANGED <<queue, enqueuing, requested, unsaved, replayed>>
    BY <1>5, CountsAt DEF TypeOK, lists, tables, history, InsertOK, b
  <2> QED
    BY <1>1, <1>2, <1>3, <2>1 DEF Books, Terms
<1>6. CASE InsertRejected(m)
  <2>1. /\ inserting'[n] = inserting[n] - b /\ enqueuing'[n] = enqueuing[n] + b
        /\ UNCHANGED <<queue, rows, requested, unsaved, replayed>>
    BY <1>6, CountsAt DEF TypeOK, lists, tables, history, InsertRejected, b
  <2> QED
    BY <1>1, <1>2, <1>3, <2>1 DEF Books, Terms
<1>7. CASE InsertReplyLost(m)
  <2>1. /\ inserting'[n] = inserting[n] - b /\ enqueuing'[n] = enqueuing[n] + b
        /\ rows'[n] = rows[n] + b /\ replayed'[n] = replayed[n] + b
        /\ UNCHANGED <<queue, requested, unsaved>>
    BY <1>7, CountsAt DEF TypeOK, lists, tables, history, InsertReplyLost, b
  <2> QED
    BY <1>1, <1>2, <1>3, <2>1 DEF Books, Terms
<1>8. CASE Announce(m)
  BY <1>3, <1>8 DEF Announce, lists, history, Books
<1>9. CASE Enqueue(m)
  <2>1. [notice |-> m, retryCount |-> 0] \in Payload
    BY DEF Payload
  <2>2. Copies(queue', n) = Copies(queue, n) + b
    BY <1>9, <2>1, CopiesAppend DEF TypeOK, Enqueue, b
  <2>3. /\ enqueuing'[n] = enqueuing[n] - b
        /\ UNCHANGED <<inserting, rows, requested, unsaved, replayed>>
    BY <1>9, CountsAt DEF TypeOK, tables, history, Enqueue, b
  <2> QED
    BY <1>1, <1>2, <1>3, <2>2, <2>3 DEF Books, Terms
<1>10. CASE CallFails(m)
  <2>1. \/ /\ inserting'[n] = inserting[n] - b /\ unsaved'[n] = unsaved[n] + b
           /\ UNCHANGED enqueuing
        \/ /\ enqueuing'[n] = enqueuing[n] - b /\ unsaved'[n] = unsaved[n] + b
           /\ UNCHANGED inserting
        \/ UNCHANGED <<inserting, enqueuing, unsaved>>
    BY <1>10, CountsAt DEF TypeOK, lists, tables, history, CallFails, b
  <2>2. UNCHANGED <<queue, rows, requested, replayed>>
    BY <1>10 DEF CallFails, lists, tables
  <2> QED
    BY <1>1, <1>2, <1>3, <2>1, <2>2 DEF Books, Terms
<1> QED
  BY <1>4, <1>5, <1>6, <1>7, <1>8, <1>9, <1>10 DEF CallStep
\* A worker that goes on with the same message.
LEMMA HeldGoto ==
  ASSUME WorkersOK, NEW w \in Workers, NEW stage \in Stages, NEW n, NEW S,
         Goto(w, stage), raw' = raw
  PROVE  Held(n, S)' = Held(n, S) - Bit(at[w] \in S /\ raw[w].notice = n)
                                  + Bit(stage \in S /\ raw[w].notice = n)
<1>0. \A v \in Workers \ {w} : at'[v] = at[v] /\ raw'[v] = raw[v]
  BY DEF WorkersOK, Goto
<1>1. at'[w] = stage /\ raw'[w] = raw[w]
  BY DEF WorkersOK, Goto
<1>2. Held(n, S)' = Held(n, S) - Bit(at[w] \in S /\ raw[w].notice = n)
                               + Bit(at'[w] \in S /\ raw'[w].notice = n)
  BY <1>0, HeldMoves
<1>3. Bit(at'[w] \in S /\ raw'[w].notice = n) = Bit(stage \in S /\ raw[w].notice = n)
  BY <1>1 DEF Bit
<1> QED
  BY <1>2, <1>3

\* A worker that is done with its message, or had none.
LEMMA HeldDone ==
  ASSUME WorkersOK, NEW w \in Workers, NEW stage, NEW n, NEW S, stage \notin S,
         Done(w, stage)
  PROVE  Held(n, S)' = Held(n, S) - Bit(at[w] \in S /\ raw[w].notice = n)
<1>1. /\ at'[w] = stage
      /\ \A v \in Workers \ {w} : at'[v] = at[v] /\ raw'[v] = raw[v]
  BY DEF WorkersOK, Done
<1>2. Held(n, S)' = Held(n, S) - Bit(at[w] \in S /\ raw[w].notice = n)
                               + Bit(at'[w] \in S /\ raw'[w].notice = n)
  BY <1>1, HeldMoves
<1>3. Bit(at'[w] \in S /\ raw'[w].notice = n) = 0
  BY <1>1 DEF Bit
<1>4. Held(n, S) \in Nat
  BY HeldType
<1>5. Bit(at[w] \in S /\ raw[w].notice = n) \in {0, 1}
  BY DEF Bit
<1> QED
  BY <1>2, <1>3, <1>4, <1>5

LEMMA WorkerKeepsBooks ==
  ASSUME TypeOK, NEW w \in Workers, WorkerStep(w) \/ WorkerFault(w),
         NEW n \in Notices, Books(n)
  PROVE  Books(n)'
<1> DEFINE b == Bit(raw[w].notice = n)
           A == {"ackDone"}
           R == {"requeue"}
           C == {"create", "ackFailed", "requeue"}
<1>1. b \in {0, 1} /\ WorkersOK
  BY DEF Bit, TypeOK
<1>2. Terms(n)
  BY TermsType
<1>3. ASSUME NEW from \in Stages, at[w] = from, NEW stage \in Stages,
             Goto(w, stage), raw' = raw
      PROVE  \A S \in {A, R, C} :
               Held(n, S)' = Held(n, S) - (IF from \in S THEN b ELSE 0)
                                        + (IF stage \in S THEN b ELSE 0)
  BY <1>1, <1>3, HeldGoto DEF Bit
<1>4. ASSUME NEW stage \in {"tick", "unlock"}, Done(w, stage)
      PROVE  \A S \in {A, R, C} :
               Held(n, S)' = Held(n, S) - (IF at[w] \in S THEN b ELSE 0)
  <2> SUFFICES ASSUME NEW S \in {A, R, C}
               PROVE  Held(n, S)' = Held(n, S) - (IF at[w] \in S THEN b ELSE 0)
    OBVIOUS
  <2>1. stage \notin S
    OBVIOUS
  <2>2. Held(n, S)' = Held(n, S) - Bit(at[w] \in S /\ raw[w].notice = n)
    BY <1>1, <1>4, <2>1, HeldDone
  <2> QED
    BY <2>2 DEF Bit
<1>5. /\ UNCHANGED <<inserting, enqueuing, requested, unsaved>>
      /\ rows'[n] \in Nat /\ dropped'[n] \in Nat /\ replayed'[n] \in Nat
  <2>1. UNCHANGED <<inserting, enqueuing, requested, unsaved>>
    BY DEF WorkerStep, WorkerFault, TryLock, SkipTick, TryLockReplyLost, Dequeue,
           DequeueEmpty, CreateOK, CreateRejected, CreateReplyLost, AckDone,
           AnnounceRetried, AckFailed, Requeue, Unlock, ReturnError, Crash,
           calls, history
  <2>2. TypeOK'
    BY WorkerKeepsTypes
  <2> QED
    BY <2>1, <2>2, CountsAt DEF TypeOK
<1> HIDE DEF b
\* Stages at which w has no message that counts.
<1>6. CASE TryLock(w) \/ DequeueEmpty(w) \/ Unlock(w)
  <2>1. /\ UNCHANGED <<lists, rows, dropped, replayed>>
        /\ \A S \in {A, R, C} : Held(n, S)' = Held(n, S)
    <3>1. CASE TryLock(w)
      <4>1. at[w] = "tick" /\ Goto(w, "dequeue") /\ raw' = raw
        BY <3>1 DEF TryLock
      <4>2. \A S \in {A, R, C} : Held(n, S)' = Held(n, S) - 0 + 0
        BY <1>3, <4>1 DEF Stages
      <4> QED
        BY <1>2, <3>1, <4>2 DEF TryLock, tables, history, Terms
    <3>2. CASE DequeueEmpty(w)
      <4>1. at[w] = "dequeue" /\ Goto(w, "unlock") /\ raw' = raw
        BY <3>2 DEF DequeueEmpty
      <4>2. \A S \in {A, R, C} : Held(n, S)' = Held(n, S) - 0 + 0
        BY <1>3, <4>1 DEF Stages
      <4> QED
        BY <1>2, <3>2, <4>2 DEF DequeueEmpty, tables, history, Terms
    <3>3. CASE Unlock(w)
      <4>1. at[w] = "unlock" /\ Goto(w, "tick") /\ raw' = raw
        BY <3>3 DEF Unlock
      <4>2. \A S \in {A, R, C} : Held(n, S)' = Held(n, S) - 0 + 0
        BY <1>3, <4>1 DEF Stages
      <4> QED
        BY <1>2, <3>3, <4>2 DEF Unlock, tables, history, Terms
    <3> QED
      BY <1>6, <3>1, <3>2, <3>3
  <2> QED
    BY <1>2, <1>5, <2>1 DEF Books, Terms, lists
<1>7. CASE SkipTick(w) \/ TryLockReplyLost(w)
  <2>1. UNCHANGED <<workers, lists, rows, dropped, replayed>>
    BY <1>7 DEF SkipTick, TryLockReplyLost, tables, history
  <2> QED
    BY <1>5, <2>1, HeldSame DEF Books, lists
\* LMOVE: from queue to processing, and into w's hand.
<1>8. CASE Dequeue(w)
  <2>1. /\ at[w] = "dequeue" /\ Goto(w, "create") /\ queue \in Seq(Payload)
        /\ processing \in Seq(Payload) /\ queue # <<>>
        /\ queue' = Tail(queue) /\ processing' = Append(processing, Head(queue))
        /\ raw' = [raw EXCEPT ![w] = Head(queue)]
        /\ UNCHANGED <<dead, rows, dropped, replayed>>
    BY <1>8 DEF Dequeue, TypeOK, tables, history
  <2> DEFINE d == Bit(Head(queue).notice = n)
  <2>2. d \in {0, 1}
    BY DEF Bit
  <2>3. /\ Copies(queue', n) = Copies(queue, n) - d
        /\ Copies(processing', n) = Copies(processing, n) + d
    BY <2>1, CopiesTail, CopiesAppend
  <2>4. /\ at'[w] = "create" /\ raw'[w] = Head(queue)
        /\ \A v \in Workers \ {w} : at'[v] = at[v] /\ raw'[v] = raw[v]
    BY <1>1, <2>1 DEF WorkersOK, Goto
  <2>5. /\ Held(n, A)' = Held(n, A)
        /\ Held(n, R)' = Held(n, R)
        /\ Held(n, C)' = Held(n, C) + d
    <3>1. \A S \in {A, R, C} :
            Held(n, S)' = Held(n, S) - Bit(at[w] \in S /\ raw[w].notice = n)
                                     + Bit(at'[w] \in S /\ raw'[w].notice = n)
      BY <2>4, HeldMoves
    <3>2. /\ \A S \in {A, R, C} : Bit(at[w] \in S /\ raw[w].notice = n) = 0
          /\ \A S \in {A, R} : Bit(at'[w] \in S /\ raw'[w].notice = n) = 0
          /\ Bit(at'[w] \in C /\ raw'[w].notice = n) = d
      BY <2>1, <2>4 DEF Bit
    <3> HIDE DEF d
    <3> QED
      BY <1>2, <2>2, <3>1, <3>2 DEF Terms
  <2>6. /\ dropped'[n] = dropped[n] /\ replayed'[n] = replayed[n]
        /\ rows'[n] = rows[n] /\ Copies(dead', n) = Copies(dead, n)
    BY <2>1
  <2>7. /\ requested'[n] = requested[n] /\ inserting'[n] = inserting[n]
        /\ enqueuing'[n] = enqueuing[n] /\ unsaved'[n] = unsaved[n]
    BY <1>5
  <2> HIDE DEF d
  <2> QED
    BY <1>2, <2>2, <2>3, <2>5, <2>6, <2>7 DEF Books, Terms
\* INSERT: the message leaves the hand for a row of its own.
<1>9. CASE CreateOK(w)
  <2>1. /\ at[w] = "create" /\ Goto(w, "ackDone") /\ raw' = raw
        /\ raw[w].notice \in Notices
        /\ UNCHANGED <<lists, dropped, replayed>>
        /\ rows' = Inc(rows, raw[w].notice)
    BY <1>1, <1>9, InHand DEF CreateOK, history
  <2>2. rows'[n] = rows[n] + b
    BY <2>1, CountsAt DEF TypeOK, b
  <2>3. /\ Held(n, A)' = Held(n, A) - 0 + b
        /\ Held(n, R)' = Held(n, R) - 0 + 0
        /\ Held(n, C)' = Held(n, C) - b + 0
    BY <1>3, <2>1 DEF Stages
  <2>4. UNCHANGED <<queue, processing, dead, dropped, replayed>>
    BY <2>1 DEF lists
  <2> QED
    BY <1>1, <1>2, <1>5, <2>2, <2>3, <2>4 DEF Books, Terms
<1>10. CASE CreateRejected(w)
  <2>1. /\ at[w] = "create" /\ Goto(w, "ackFailed") /\ raw' = raw
        /\ UNCHANGED <<lists, rows, dropped, replayed>>
    BY <1>10 DEF CreateRejected, tables
  <2>2. /\ Held(n, A)' = Held(n, A) - 0 + 0
        /\ Held(n, R)' = Held(n, R) - 0 + 0
        /\ Held(n, C)' = Held(n, C) - b + b
    BY <1>3, <2>1 DEF Stages
  <2> QED
    BY <1>1, <1>2, <1>5, <2>1, <2>2 DEF Books, Terms, lists
<1>11. CASE CreateReplyLost(w)
  <2>1. /\ at[w] = "create" /\ Goto(w, "ackFailed") /\ raw' = raw
        /\ raw[w].notice \in Notices
        /\ UNCHANGED <<lists, dropped>>
        /\ rows' = Inc(rows, raw[w].notice)
        /\ replayed' = Inc(replayed, raw[w].notice)
    BY <1>1, <1>11, InHand DEF CreateReplyLost
  <2>2. rows'[n] = rows[n] + b /\ replayed'[n] = replayed[n] + b
    BY <2>1, CountsAt DEF TypeOK, b
  <2>3. /\ Held(n, A)' = Held(n, A) - 0 + 0
        /\ Held(n, R)' = Held(n, R) - 0 + 0
        /\ Held(n, C)' = Held(n, C) - b + b
    BY <1>3, <2>1 DEF Stages
  <2> QED
    BY <1>1, <1>2, <1>5, <2>1, <2>2, <2>3 DEF Books, Terms, lists
\* LREM removes a copy of the message, unless a recovery took it away.
<1>12. CASE AckDone(w)
  <2>1. /\ at[w] = "ackDone" /\ Goto(w, "announce") /\ raw' = raw
        /\ raw[w] \in Payload
        /\ processing' = RemoveFirst(processing, raw[w])
        /\ UNCHANGED <<queue, dead, rows, dropped, replayed>>
    BY <1>1, <1>12, InHand DEF AckDone, tables, history
  <2>2. Copies(processing', n) >= Copies(processing, n) - b
    BY <2>1, CopiesRemoveFirst DEF TypeOK, b
  <2>3. Copies(processing', n) \in Nat
    BY <2>1, CopiesRemoveFirst, CopiesCount DEF TypeOK
  <2>4. /\ Held(n, A)' = Held(n, A) - b + 0
        /\ Held(n, R)' = Held(n, R) - 0 + 0
        /\ Held(n, C)' = Held(n, C) - 0 + 0
    BY <1>3, <2>1 DEF Stages
  <2> QED
    BY <1>1, <1>2, <1>5, <2>1, <2>2, <2>3, <2>4 DEF Books, Terms
<1>13. CASE AckFailed(w)
  <2>1. /\ at[w] = "ackFailed" /\ Goto(w, "requeue") /\ raw' = raw
        /\ raw[w] \in Payload
        /\ processing' = RemoveFirst(processing, raw[w])
        /\ UNCHANGED <<queue, dead, rows, dropped, replayed>>
    BY <1>1, <1>13, InHand DEF AckFailed, tables, history
  <2>2. Copies(processing', n) >= Copies(processing, n) - b
    BY <2>1, CopiesRemoveFirst DEF TypeOK, b
  <2>3. Copies(processing', n) \in Nat
    BY <2>1, CopiesRemoveFirst, CopiesCount DEF TypeOK
  <2>4. /\ Held(n, A)' = Held(n, A) - 0 + 0
        /\ Held(n, R)' = Held(n, R) - 0 + b
        /\ Held(n, C)' = Held(n, C) - b + b
    BY <1>3, <2>1 DEF Stages
  <2> QED
    BY <1>1, <1>2, <1>5, <2>1, <2>2, <2>3, <2>4 DEF Books, Terms
<1>14. CASE AnnounceRetried(w)
  <2>1. /\ at[w] = "announce" /\ Done(w, "unlock")
        /\ UNCHANGED <<lists, rows, dropped, replayed>>
    BY <1>14 DEF AnnounceRetried, history
  <2>2. \A S \in {A, R, C} : Held(n, S)' = Held(n, S) - 0
    BY <1>4, <2>1
  <2> QED
    BY <1>2, <1>5, <2>1, <2>2 DEF Books, Terms, lists
\* RPUSH: from w's hand to the queue or to the dead list.
<1>15. CASE Requeue(w)
  <2>1. /\ at[w] = "requeue" /\ Done(w, "unlock")
        /\ UNCHANGED <<processing, rows, dropped, replayed>>
        /\ \/ queue' = Append(queue, Retried(raw[w])) /\ dead' = dead
           \/ dead' = Append(dead, Retried(raw[w])) /\ queue' = queue
    BY <1>15 DEF Requeue, tables, history
  <2>2. raw[w].notice \in Notices /\ raw[w].retryCount \in Nat
    BY <1>1, <2>1, InHand
  <2>3. Retried(raw[w]) \in Payload /\ Retried(raw[w]).notice = raw[w].notice
    BY <2>2 DEF Retried, Payload
  <2>4. \A s \in Seq(Payload) :
          Copies(Append(s, Retried(raw[w])), n) = Copies(s, n) + b
    BY <2>3, CopiesAppend DEF b
  <2>5. \/ Copies(queue', n) = Copies(queue, n) + b /\ dead' = dead
        \/ Copies(dead', n) = Copies(dead, n) + b /\ queue' = queue
    BY <2>1, <2>4 DEF TypeOK
  <2>6. /\ Held(n, A)' = Held(n, A) - 0
        /\ Held(n, R)' = Held(n, R) - b
        /\ Held(n, C)' = Held(n, C) - b
    BY <1>4, <2>1
  <2>7. UNCHANGED <<processing, rows, dropped, replayed>>
    BY <2>1
  <2>8. CASE Copies(queue', n) = Copies(queue, n) + b /\ dead' = dead
    BY <1>1, <1>2, <1>5, <2>6, <2>7, <2>8 DEF Books, Terms
  <2>9. CASE Copies(dead', n) = Copies(dead, n) + b /\ queue' = queue
    BY <1>1, <1>2, <1>5, <2>6, <2>7, <2>9 DEF Books, Terms
  <2> QED
    BY <2>5, <2>8, <2>9
\* w stops: only between its LREM and its RPUSH is the message gone.
<1>16. CASE ReturnError(w) \/ Crash(w)
  <2>1. /\ Done(w, "unlock") \/ Done(w, "tick")
        /\ DropHeld(w) /\ at[w] # "tick"
        /\ UNCHANGED <<lists, rows, replayed>>
    BY <1>16 DEF ReturnError, Crash, tables
  <2>2. \A S \in {A, R, C} :
          Held(n, S)' = Held(n, S) - (IF at[w] \in S THEN b ELSE 0)
    BY <1>4, <2>1
  <2>3. CASE at[w] = "requeue"
    <3>1. dropped'[n] = dropped[n] + b
      <4>1. raw[w].notice \in Notices
        BY <1>1, <2>3, InHand
      <4> QED
        BY <2>1, <2>3, <4>1, CountsAt DEF TypeOK, DropHeld, b
    <3>2. /\ Held(n, A)' = Held(n, A) - 0
          /\ Held(n, R)' = Held(n, R) - b
          /\ Held(n, C)' = Held(n, C) - b
      BY <2>2, <2>3
    <3> QED
      BY <1>1, <1>2, <1>5, <2>1, <3>1, <3>2 DEF Books, Terms, lists
  <2>4. CASE at[w] # "requeue"
    <3>1. dropped' = dropped
      BY <2>1, <2>4 DEF DropHeld
    <3>2. /\ Held(n, A)' = Held(n, A) - (IF at[w] \in A THEN b ELSE 0)
          /\ Held(n, R)' = Held(n, R) - 0
          /\ Held(n, C)' = Held(n, C) - (IF at[w] \in C THEN b ELSE 0)
      BY <2>2, <2>4
    <3> QED
      BY <1>1, <1>2, <1>5, <2>1, <3>1, <3>2 DEF Books, Terms, lists
  <2> QED
    BY <2>3, <2>4
<1> QED
  BY <1>6, <1>7, <1>8, <1>9, <1>10, <1>11, <1>12, <1>13, <1>14, <1>15, <1>16
     DEF WorkerStep, WorkerFault

LEMMA RecoverKeepsBooks ==
  ASSUME TypeOK, Recover, NEW n \in Notices, Books(n)
  PROVE  Books(n)'
<1> DEFINE b == Bit(Head(processing).notice = n)
<1>1. b \in {0, 1}
  BY DEF Bit
<1>2. Terms(n)
  BY TermsType
<1>3. /\ processing \in Seq(Payload) /\ queue \in Seq(Payload)
      /\ processing # <<>>
      /\ processing' = Tail(processing)
      /\ queue' = Append(queue, Head(processing))
      /\ replayed' = Inc(replayed, Head(processing).notice)
      /\ UNCHANGED <<dead, rows, inserting, enqueuing, workers,
                     requested, unsaved, dropped>>
  BY DEF Recover, TypeOK, tables, calls
<1>4. Head(processing) \in Payload
  BY <1>3, CopiesTail
<1>5. Copies(processing', n) = Copies(processing, n) - b
  BY <1>3, CopiesTail
<1>6. Copies(queue', n) = Copies(queue, n) + b
  BY <1>3, <1>4, CopiesAppend
<1>7. replayed'[n] = replayed[n] + b
  BY <1>3, <1>4, CountsAt DEF Payload, TypeOK
<1>8. \A S : Held(n, S)' = Held(n, S)
  BY <1>3, HeldSame
<1>9. /\ Held(n, {"ackDone"})' = Held(n, {"ackDone"})
      /\ Held(n, {"requeue"})' = Held(n, {"requeue"})
      /\ Held(n, {"create", "ackFailed", "requeue"})'
           = Held(n, {"create", "ackFailed", "requeue"})
  BY <1>8
<1>10. UNCHANGED <<dead, rows, inserting, enqueuing, requested, unsaved, dropped>>
  BY <1>3
<1> HIDE DEF b
<1> QED
  BY <1>1, <1>2, <1>5, <1>6, <1>7, <1>9, <1>10 DEF Books, Terms

\* Nothing that Books speaks of changes when the lock expires or nothing happens.
LEMMA OthersKeepBooks ==
  ASSUME LockExpires \/ UNCHANGED vars, NEW n \in Notices, Books(n)
  PROVE  Books(n)'
<1>1. UNCHANGED <<workers, lists, rows, inserting, enqueuing, requested, unsaved,
                  dropped, replayed>>
  BY DEF LockExpires, vars, tables, calls, history
<1> QED
  BY <1>1, HeldSame DEF Books, lists

\* The inductive invariant behind the two theorems below: the ledger of losses
\* and the ledger of surplus rows balance for every notification.
THEOREM RetryBooks == Spec => [](\A n \in Notices : Books(n))
<1>1. Init => \A n \in Notices : Books(n)
  <2> SUFFICES ASSUME Init, NEW n \in Notices
               PROVE  Books(n)
    OBVIOUS
  <2>1. \A S \in {{"ackDone"}, {"requeue"}, {"create", "ackFailed", "requeue"}} :
          Held(n, S) = 0
    <3> SUFFICES ASSUME NEW S \in {{"ackDone"}, {"requeue"},
                                   {"create", "ackFailed", "requeue"}}
                 PROVE  Held(n, S) = 0
      OBVIOUS
    <3>1. Holding(n, S) = {}
      BY DEF Init, Holding
    <3> QED
      BY <3>1, FS_EmptySet DEF Held
  <2>2. Copies(<<>>, n) = 0
    <3>1. {i \in DOMAIN <<>> : <<>>[i].notice = n} = {}
      OBVIOUS
    <3> QED
      BY <3>1, FS_EmptySet DEF Copies
  <2>3. /\ requested[n] = 0 /\ inserting[n] = 0 /\ enqueuing[n] = 0 /\ rows[n] = 0
        /\ unsaved[n] = 0 /\ dropped[n] = 0 /\ replayed[n] = 0
        /\ queue = <<>> /\ processing = <<>> /\ dead = <<>>
    BY DEF Init, None
  <2> QED
    BY <2>1, <2>2, <2>3 DEF Books
<1>2. TypeOK /\ (\A n \in Notices : Books(n)) /\ [Next]_vars
        => (\A n \in Notices : Books(n))'
  BY CallKeepsBooks, WorkerKeepsBooks, RecoverKeepsBooks, OthersKeepBooks DEF Next
<1>3. Spec => []TypeOK
  BY RetryTypeCorrect
<1> QED
  BY <1>1, <1>2, <1>3, PTL DEF Spec

\* At least once: for any number of workers, calls, crashes and recoveries, a
\* requested notification can be found or is counted as unsaved or dropped
\* (retry.go ProcessOneNotificationRetry).
THEOREM RetryLosesNothing == Spec => []NothingLost
<1>1. TypeOK /\ (\A n \in Notices : Books(n)) => NothingLost
  <2> SUFFICES ASSUME TypeOK, NEW n \in Notices, Books(n)
               PROVE  requested[n] <= Traceable(n) + unsaved[n] + dropped[n]
    BY DEF NothingLost
  <2>1. Terms(n)
    BY TermsType
  <2> QED
    BY <2>1 DEF Books, Terms, Traceable
<1> QED
  BY <1>1, RetryTypeCorrect, RetryBooks, PTL

\* At most once: there are never more rows of a notification than calls, late
\* committed INSERTs and recovered messages account for.
THEOREM RetryAddsNothing == Spec => []AtMostOnce
<1>1. TypeOK /\ (\A n \in Notices : Books(n)) => AtMostOnce
  <2> SUFFICES ASSUME TypeOK, NEW n \in Notices, Books(n)
               PROVE  rows[n] <= requested[n] + replayed[n]
    BY DEF AtMostOnce
  <2>1. Terms(n)
    BY TermsType
  <2> QED
    BY <2>1 DEF Books, Terms
<1> QED
  BY <1>1, RetryTypeCorrect, RetryBooks, PTL

\* Rows and ids balance: a row whose id is not in the unread set has a call or a
\* worker that is about to add it.
Ids(n) == rows[n] = unread[n] + announcing[n] + Held(n, {"ackDone", "announce"})

LEMMA CallKeepsIds ==
  ASSUME TypeOK, NEW m \in Notices, CallStep(m), faults' = 0, NEW n \in Notices, Ids(n)
  PROVE  Ids(n)'
<1> DEFINE b == Bit(m = n)
           H == Held(n, {"ackDone", "announce"})
<1>1. /\ b \in {0, 1} /\ H \in Nat
      /\ rows[n] \in Nat /\ unread[n] \in Nat /\ announcing[n] \in Nat
  BY HeldType DEF Bit, TypeOK, Counts
<1>2. ~ InsertReplyLost(m) /\ ~ CallFails(m)
  BY DEF InsertReplyLost, CallFails, Fault, TypeOK
<1>3. H' = H
  BY HeldSame
     DEF CallStep, Call, InsertOK, InsertRejected, InsertReplyLost, Announce,
         Enqueue, CallFails
<1>4. CASE Call(m) \/ InsertRejected(m) \/ Enqueue(m)
  BY <1>3, <1>4 DEF Call, InsertRejected, Enqueue, tables, Ids
<1>5. CASE InsertOK(m)
  <2>1. announcing'[n] = announcing[n] + b /\ rows'[n] = rows[n] + b /\ unread' = unread
    BY <1>5, CountsAt DEF TypeOK, InsertOK
  <2> HIDE DEF b, H
  <2> QED
    BY <1>1, <1>3, <2>1 DEF Ids, H
<1>6. CASE Announce(m)
  <2>1. announcing'[n] = announcing[n] - b /\ unread'[n] = unread[n] + b /\ rows' = rows
    BY <1>6, CountsAt DEF TypeOK, Announce
  <2> HIDE DEF b, H
  <2> QED
    BY <1>1, <1>3, <2>1 DEF Ids, H
<1> QED
  BY <1>2, <1>4, <1>5, <1>6 DEF CallStep

LEMMA WorkerKeepsIds ==
  ASSUME TypeOK, NEW w \in Workers, WorkerStep(w) \/ WorkerFault(w), faults' = 0,
         NEW n \in Notices, Ids(n)
  PROVE  Ids(n)'
<1> DEFINE A == {"ackDone", "announce"}
           b == Bit(raw[w].notice = n)
<1>1. /\ b \in {0, 1} /\ Held(n, A) \in Nat
      /\ rows[n] \in Nat /\ unread[n] \in Nat /\ announcing[n] \in Nat
  BY HeldType DEF Bit, TypeOK, Counts
<1>2. WorkerStep(w)
  BY DEF WorkerFault, TryLockReplyLost, CreateReplyLost, ReturnError, Crash, Fault, TypeOK
<1>3. UNCHANGED announcing
  BY <1>2 DEF WorkerStep, TryLock, SkipTick, Dequeue, DequeueEmpty, CreateOK,
              CreateRejected, AckDone, AnnounceRetried, AckFailed, Requeue, Unlock, calls
<1>4. \A v \in Workers \ {w} : at'[v] = at[v] /\ raw'[v] = raw[v]
  BY <1>2 DEF WorkerStep, TryLock, SkipTick, Dequeue, DequeueEmpty, CreateOK,
              CreateRejected, AckDone, AnnounceRetried, AckFailed, Requeue, Unlock,
              Goto, Done, workers, TypeOK, WorkersOK
<1>5. Held(n, A)' = Held(n, A) - Bit(at[w] \in A /\ raw[w].notice = n)
                               + Bit(at'[w] \in A /\ raw'[w].notice = n)
  BY <1>4, HeldMoves
<1>6. CASE CreateOK(w)
  <2>1. raw[w].notice \in Notices
    BY <1>6, InHand DEF CreateOK, TypeOK
  <2>2. rows'[n] = rows[n] + b /\ unread' = unread
    BY <1>6, <2>1, CountsAt DEF CreateOK, TypeOK
  <2>3. at[w] \notin A /\ at'[w] \in A /\ raw' = raw
    BY <1>6 DEF CreateOK, Goto, TypeOK, WorkersOK
  <2>4. Held(n, A)' = Held(n, A) + b
    <3> HIDE DEF A
    <3> QED
      BY <1>1, <1>5, <2>3 DEF Bit
  <2> HIDE DEF b
  <2> QED
    BY <1>1, <1>3, <2>2, <2>4 DEF Ids
<1>7. CASE AnnounceRetried(w)
  <2>1. raw[w].notice \in Notices
    BY <1>7, InHand DEF AnnounceRetried, TypeOK
  <2>2. unread'[n] = unread[n] + b /\ rows' = rows
    BY <1>7, <2>1, CountsAt DEF AnnounceRetried, TypeOK
  <2>3. at[w] \in A /\ at'[w] \notin A
    BY <1>7 DEF AnnounceRetried, Done, TypeOK, WorkersOK
  <2>4. Held(n, A)' = Held(n, A) - b
    <3> HIDE DEF A
    <3> QED
      BY <1>1, <1>5, <2>3 DEF Bit
  <2> HIDE DEF b
  <2> QED
    BY <1>1, <1>3, <2>2, <2>4 DEF Ids
\* The other steps leave both tables alone, and keep w in or out of A.
<1>8. CASE \/ TryLock(w) \/ SkipTick(w) \/ Dequeue(w) \/ DequeueEmpty(w)
           \/ CreateRejected(w) \/ AckDone(w) \/ AckFailed(w) \/ Requeue(w) \/ Unlock(w)
  <2>1. UNCHANGED tables
    BY <1>8 DEF TryLock, SkipTick, Dequeue, DequeueEmpty, CreateRejected, AckDone,
                AckFailed, Requeue, Unlock
  <2>2. \/ at[w] \in A /\ at'[w] \in A /\ raw' = raw
        \/ at[w] \notin A /\ at'[w] \notin A
    BY <1>8 DEF TryLock, SkipTick, Dequeue, DequeueEmpty, CreateRejected, AckDone,
                AckFailed, Requeue, Unlock, Goto, Done, TypeOK, WorkersOK, workers
  <2>3. Held(n, A)' = Held(n, A)
    <3> HIDE DEF A
    <3> QED
      BY <1>1, <1>5, <2>2 DEF Bit
  <2> QED
    BY <1>3, <2>1, <2>3 DEF Ids, tables
<1> QED
  BY <1>2, <1>6, <1>7, <1>8 DEF WorkerStep

\* Without a fault every row's id reaches the unread set, and no other id does,
\* once the call or the worker that inserted it is through (notification.go,
\* retry.go), for any number of workers and whatever an operator recovers.
THEOREM RetryAnnounces == Spec => []UnreadComplete
<1> DEFINE Inv == faults = 0 => \A n \in Notices : Ids(n)
<1>1. Init => Inv
  <2> SUFFICES ASSUME Init, NEW n \in Notices
               PROVE  Ids(n)
    OBVIOUS
  <2>1. Holding(n, {"ackDone", "announce"}) = {}
    BY DEF Init, Holding
  <2>2. Held(n, {"ackDone", "announce"}) = 0
    BY <2>1, FS_EmptySet DEF Held
  <2>3. rows[n] = 0 /\ unread[n] = 0 /\ announcing[n] = 0
    BY DEF Init, None
  <2> QED
    BY <2>2, <2>3 DEF Ids
<1>2. TypeOK /\ Inv /\ [Next]_vars => Inv'
  <2> SUFFICES ASSUME TypeOK, Inv, [Next]_vars, faults' = 0, NEW n \in Notices
               PROVE  Ids(n)'
    OBVIOUS
  <2>1. faults = 0
    <3>1. faults \in Nat /\ (Fault => faults' # 0)
      BY DEF TypeOK, Fault
    <3>2. ASSUME NEW m \in Notices, CallStep(m)
          PROVE  Fault \/ faults' = faults
      BY <3>2 DEF CallStep, Call, InsertOK, InsertRejected, InsertReplyLost, Announce,
                  Enqueue, CallFails, history
    <3>3. ASSUME NEW w \in Workers, WorkerStep(w) \/ WorkerFault(w)
          PROVE  Fault \/ faults' = faults
      BY <3>3 DEF WorkerStep, WorkerFault, TryLock, SkipTick, TryLockReplyLost, Dequeue,
                  DequeueEmpty, CreateOK, CreateRejected, CreateReplyLost, AckDone,
                  AnnounceRetried, AckFailed, Requeue, Unlock, ReturnError, Crash, history
    <3>4. LockExpires \/ Recover \/ UNCHANGED vars => faults' = faults
      BY DEF LockExpires, Recover, vars, history
    <3> QED
      BY <3>1, <3>2, <3>3, <3>4 DEF Next
  <2>2. Ids(n)
    BY <2>1
  <2>3. CASE LockExpires \/ Recover \/ UNCHANGED vars
    <3>1. UNCHANGED <<workers, tables, announcing>>
      BY <2>3 DEF LockExpires, Recover, vars, calls
    <3> QED
      BY <2>2, <3>1, HeldSame DEF Ids, tables
  <2> QED
    BY <2>2, <2>3, CallKeepsIds, WorkerKeepsIds DEF Next
<1>3. Inv => UnreadComplete
  BY DEF UnreadComplete, Ids
<1> QED
  BY <1>1, <1>2, <1>3, RetryTypeCorrect, PTL DEF Spec

-----------------------------------------------------------------------------
(* The limit of retries.                                                    *)

\* What identifies an attempt that is still to come: the place of the message,
\* in a list or in the hand of a worker, and the retryCount it will have then.
QueuedAttempts(s, n) ==
  {t \in (1..Len(s)) \X (0..MaxCount) : s[t[1]].notice = n /\ s[t[1]].retryCount <= t[2]}

\* The next retryCount of the message that w holds.
NextCount(w) == IF at[w] = "create" THEN raw[w].retryCount ELSE raw[w].retryCount + 1

HeldAttempts(n) ==
  {t \in Holding(n, {"create", "ackFailed", "requeue"}) \X (0..MaxCount) :
     NextCount(t[1]) <= t[2]}

\* The attempts at place x begin with retryCount a; those at the other places;
\* how many there are from a on.
From(T, x, a) == \A j \in 0..MaxCount : <<x, j>> \in T <=> a <= j
Elsewhere(T, x) == {t \in T : t[1] # x}
Span(a) == IF a <= MaxCount THEN MaxCount + 1 - a ELSE 0

LEMMA RowCounted ==
  ASSUME NEW X, IsFiniteSet(X), NEW T \in SUBSET (X \X (0..MaxCount)), NEW x \in X,
         NEW a \in Nat, From(T, x, a)
  PROVE  /\ Cardinality(T) \in Nat /\ Cardinality(Elsewhere(T, x)) \in Nat /\ Span(a) \in Nat
         /\ Cardinality(T) = Cardinality(Elsewhere(T, x)) + Span(a)
<1> DEFINE R == {x} \X (a..MaxCount)
           U == Elsewhere(T, x)
<1>0. Span(a) \in Nat
  BY MaxCountAssumption DEF Span
<1>1. IsFiniteSet(T)
  <2>1. IsFiniteSet(0..MaxCount)
    BY FS_Interval, MaxCountAssumption
  <2>2. IsFiniteSet(X \X (0..MaxCount))
    BY <2>1, FS_Product
  <2> QED
    BY <2>2, FS_Subset
<1>2. IsFiniteSet(U) /\ Cardinality(U) \in Nat /\ Cardinality(T) \in Nat
  BY <1>1, FS_Subset, FS_CardinalityType DEF Elsewhere
<1>3. IsFiniteSet(R) /\ Cardinality(R) = Span(a)
  <2>1. /\ IsFiniteSet(a..MaxCount)
        /\ Cardinality(a..MaxCount) = IF a > MaxCount THEN 0 ELSE MaxCount - a + 1
    BY FS_Interval, MaxCountAssumption
  <2>2. IsFiniteSet({x}) /\ Cardinality({x}) = 1
    BY FS_Singleton
  <2>3. IsFiniteSet(R) /\ Cardinality(R) = Cardinality({x}) * Cardinality(a..MaxCount)
    BY <2>1, <2>2, FS_Product
  <2>4. Cardinality(a..MaxCount) = Span(a)
    BY <2>1, MaxCountAssumption DEF Span
  <2>5. Cardinality(a..MaxCount) \in Nat
    BY <2>1, FS_CardinalityType
  <2> HIDE DEF R
  <2>6. Cardinality(R) = Cardinality(a..MaxCount)
    BY <2>2, <2>3, <2>5
  <2> QED
    BY <2>3, <2>4, <2>6
<1>4. T = U \cup R /\ U \cap R = {}
  <2> USE DEF From, Elsewhere
  <2>1. ASSUME NEW t \in T, t[1] = x
        PROVE  t \in R
    <3>1. t = <<x, t[2]>> /\ t[2] \in 0..MaxCount
      BY <2>1
    <3> QED
      BY <2>1, <3>1, MaxCountAssumption
  <2>2. ASSUME NEW t \in R
        PROVE  t \in T
    <3>1. t = <<x, t[2]>> /\ t[2] \in a..MaxCount
      OBVIOUS
    <3>2. t[2] \in 0..MaxCount /\ a <= t[2]
      BY <3>1, MaxCountAssumption
    <3> QED
      BY <3>1, <3>2
  <2> QED
    BY <2>1, <2>2
<1>5. Cardinality(U \cap R) = 0
  BY <1>4, FS_EmptySet
<1> HIDE DEF U, R
<1>6. Cardinality(T) = Cardinality(U) + Cardinality(R)
  <2>1. Cardinality(U \cup R) = Cardinality(U) + Cardinality(R) - Cardinality(U \cap R)
    BY <1>2, <1>3, FS_Union
  <2>2. Cardinality(R) \in Nat
    BY <1>3, FS_CardinalityType
  <2> QED
    BY <1>2, <1>4, <1>5, <2>1, <2>2
<1> QED
  BY <1>0, <1>2, <1>3, <1>6 DEF U

\* A list of payloads.
LEMMA QueuedType ==
  ASSUME NEW s \in Seq(Payload), NEW n
  PROVE  /\ IsFiniteSet(QueuedAttempts(s, n)) /\ Cardinality(QueuedAttempts(s, n)) \in Nat
<1>1. IsFiniteSet(1..Len(s)) /\ IsFiniteSet(0..MaxCount)
  BY FS_Interval, MaxCountAssumption
<1>2. IsFiniteSet((1..Len(s)) \X (0..MaxCount))
  BY <1>1, FS_Product
<1>3. IsFiniteSet(QueuedAttempts(s, n))
  BY <1>2, FS_Subset DEF QueuedAttempts
<1> QED
  BY <1>3, FS_CardinalityType

\* The attempts that p may still cost, if it is about n.
Left(p, n) == IF p.notice = n THEN Span(p.retryCount) ELSE 0

LEMMA QueuedAppend ==
  ASSUME NEW s \in Seq(Payload), NEW p \in Payload, NEW n
  PROVE  Cardinality(QueuedAttempts(Append(s, p), n))
           = Cardinality(QueuedAttempts(s, n)) + Left(p, n)
<1> DEFINE k == Len(s) + 1
           T == QueuedAttempts(Append(s, p), n)
           a == IF p.notice = n THEN p.retryCount ELSE MaxCount + 1
<1>1. /\ Len(Append(s, p)) = k /\ k \in 1..k /\ IsFiniteSet(1..k)
      /\ Append(s, p)[k] = p /\ \A i \in 1..Len(s) : Append(s, p)[i] = s[i]
      /\ 1..Len(s) = (1..k) \ {k}
  <2>1. Len(s) \in Nat /\ k \in Int
    OBVIOUS
  <2>2. IsFiniteSet(1..k)
    BY <2>1, FS_Interval
  <2> QED
    BY <2>1, <2>2
<1>2. T \in SUBSET ((1..k) \X (0..MaxCount))
  BY <1>1 DEF QueuedAttempts
<1>3. p.retryCount \in Nat /\ a \in Nat
  BY MaxCountAssumption DEF Payload
<1>4. From(T, k, a)
  BY <1>1, MaxCountAssumption DEF QueuedAttempts, From
<1>5. Elsewhere(T, k) = QueuedAttempts(s, n)
  BY <1>1 DEF QueuedAttempts, Elsewhere
<1>6. Left(p, n) = Span(a)
  BY <1>3, MaxCountAssumption DEF Left, Span
<1> HIDE DEF T, a, k
<1>7. Cardinality(T) = Cardinality(Elsewhere(T, k)) + Span(a)
  BY <1>1, <1>2, <1>3, <1>4, RowCounted
<1> QED
  BY <1>5, <1>6, <1>7 DEF T

LEMMA QueuedTail ==
  ASSUME NEW s \in Seq(Payload), s # <<>>, NEW n
  PROVE  Cardinality(QueuedAttempts(s, n))
           = Cardinality(QueuedAttempts(Tail(s), n)) + Left(Head(s), n)
<1> DEFINE p == Head(s)
           T == QueuedAttempts(s, n)
           U == Elsewhere(T, 1)
           V == QueuedAttempts(Tail(s), n)
           a == IF p.notice = n THEN p.retryCount ELSE MaxCount + 1
           f == [t \in V |-> <<t[1] + 1, t[2]>>]
<1>1. /\ p \in Payload /\ p = s[1] /\ 1 \in 1..Len(s) /\ IsFiniteSet(1..Len(s))
      /\ Tail(s) \in Seq(Payload) /\ Len(Tail(s)) = Len(s) - 1
      /\ \A i \in 1..(Len(s) - 1) : Tail(s)[i] = s[i + 1]
  BY FS_Interval
<1>2. T \in SUBSET ((1..Len(s)) \X (0..MaxCount))
  BY DEF QueuedAttempts
<1>3. p.retryCount \in Nat /\ a \in Nat
  BY <1>1, MaxCountAssumption DEF Payload
<1>4. From(T, 1, a)
  BY <1>1, MaxCountAssumption DEF QueuedAttempts, From
<1>5. Left(p, n) = Span(a)
  BY <1>3, MaxCountAssumption DEF Left, Span
<1>6. f \in Bijection(V, U)
  <2> USE DEF Elsewhere
  <2>1. ASSUME NEW t \in V
        PROVE  f[t] \in U
    <3>1. /\ t[1] \in 1..(Len(s) - 1) /\ t[2] \in 0..MaxCount
          /\ Tail(s)[t[1]].notice = n /\ Tail(s)[t[1]].retryCount <= t[2]
      BY <1>1 DEF QueuedAttempts
    <3>2. t[1] + 1 \in 1..Len(s) /\ t[1] + 1 # 1 /\ Tail(s)[t[1]] = s[t[1] + 1]
      BY <1>1, <3>1
    <3> QED
      BY <3>1, <3>2 DEF QueuedAttempts
  <2>2. ASSUME NEW t \in V, NEW v \in V, f[t] = f[v]
        PROVE  t = v
    <3>1. /\ t \in (1..(Len(s) - 1)) \X (0..MaxCount) /\ v \in (1..(Len(s) - 1)) \X (0..MaxCount)
      BY <1>1 DEF QueuedAttempts
    <3>2. t[1] + 1 = v[1] + 1 /\ t[2] = v[2]
      BY <2>2
    <3> QED
      BY <3>1, <3>2
  <2>3. ASSUME NEW u \in U
        PROVE  \E t \in V : f[t] = u
    <3>1. /\ u \in (1..Len(s)) \X (0..MaxCount) /\ u[1] # 1
          /\ s[u[1]].notice = n /\ s[u[1]].retryCount <= u[2]
      BY DEF QueuedAttempts
    <3>2. u[1] - 1 \in 1..(Len(s) - 1) /\ Tail(s)[u[1] - 1] = s[u[1]]
      BY <1>1, <3>1
    <3>3. <<u[1] - 1, u[2]>> \in V
      BY <1>1, <3>1, <3>2 DEF QueuedAttempts
    <3>4. f[<<u[1] - 1, u[2]>>] = u
      BY <3>1, <3>2, <3>3
    <3> QED
      BY <3>3, <3>4
  <2> QED
    BY <2>1, <2>2, <2>3 DEF Bijection, Injection, Surjection, IsInjective
<1>7. IsFiniteSet(V)
  BY <1>1, QueuedType
<1> HIDE DEF T, U, V, a, f, p
<1>8. Cardinality(U) = Cardinality(V)
  BY <1>6, <1>7, FS_Bijection DEF ExistsBijection
<1>9. Cardinality(T) = Cardinality(U) + Span(a)
  BY <1>1, <1>2, <1>3, <1>4, RowCounted DEF U
<1> QED
  BY <1>5, <1>8, <1>9 DEF T, V, p

\* The attempts that the message in the hand of w may still cost.
HandLeft(w, n) ==
  IF /\ at[w] \in {"create", "ackFailed", "requeue"} /\ raw[w].notice = n
  THEN Span(NextCount(w)) ELSE 0

\* A step of one worker changes the attempts in its hand alone.
LEMMA HeldAttemptsMove ==
  ASSUME TypeOK, TypeOK', NEW n, NEW w \in Workers,
         \A v \in Workers \ {w} : at'[v] = at[v] /\ raw'[v] = raw[v]
  PROVE  /\ Cardinality(HeldAttempts(n)) \in Nat /\ Cardinality(HeldAttempts(n)') \in Nat
         /\ Cardinality(HeldAttempts(n)') + HandLeft(w, n)
              = Cardinality(HeldAttempts(n)) + HandLeft(w, n)'
<1> DEFINE S == {"create", "ackFailed", "requeue"}
           a == IF at[w] \in S /\ raw[w].notice = n THEN NextCount(w) ELSE MaxCount + 1
           b == IF at'[w] \in S /\ raw'[w].notice = n THEN NextCount(w)' ELSE MaxCount + 1
           T == HeldAttempts(n)
           U == HeldAttempts(n)'
<1>1. /\ T \in SUBSET (Workers \X (0..MaxCount)) /\ U \in SUBSET (Workers \X (0..MaxCount))
  BY DEF HeldAttempts, Holding
<1>2. a \in Nat /\ b \in Nat
  <2>1. at[w] \in S => raw[w].retryCount \in Nat
    BY InHand DEF TypeOK
  <2>2. at'[w] \in S => raw'[w].retryCount \in Nat
    BY DEF TypeOK, WorkersOK, Payload
  <2> QED
    BY <2>1, <2>2, MaxCountAssumption DEF NextCount
<1>3. From(T, w, a)
  BY MaxCountAssumption DEF HeldAttempts, Holding, From
<1>4. From(U, w, b)
  BY MaxCountAssumption DEF HeldAttempts, Holding, From
<1>5. Elsewhere(T, w) = Elsewhere(U, w)
  BY DEF HeldAttempts, Holding, NextCount, Elsewhere
<1>6. HandLeft(w, n) = Span(a) /\ HandLeft(w, n)' = Span(b)
  BY <1>2, MaxCountAssumption DEF HandLeft, Span
<1> HIDE DEF T, U, a, b
<1>7. /\ Cardinality(T) \in Nat /\ Cardinality(Elsewhere(T, w)) \in Nat /\ Span(a) \in Nat
      /\ Cardinality(T) = Cardinality(Elsewhere(T, w)) + Span(a)
  BY <1>1, <1>2, <1>3, RowCounted, WorkersAssumption
<1>8. /\ Cardinality(U) \in Nat /\ Span(b) \in Nat
      /\ Cardinality(U) = Cardinality(Elsewhere(U, w)) + Span(b)
  BY <1>1, <1>2, <1>4, RowCounted, WorkersAssumption
<1>9. Cardinality(U) + HandLeft(w, n) = Cardinality(T) + HandLeft(w, n)'
  BY <1>5, <1>6, <1>7, <1>8
<1> QED
  BY <1>7, <1>8, <1>9 DEF T, U

\* A message that was inserted retryCount times in vain, and may be tried again;
\* and one that may not.
Tried    == {p \in Payload : p.retryCount <= MaxCount /\ p.retryCount <= rejected[p.notice]}
TriedOut == {p \in Payload : p.retryCount = MaxCount + 1 /\ MaxCount + 1 <= rejected[p.notice]}

TriesOK ==
  /\ queue \in Seq(Tried) /\ processing \in Seq(Tried) /\ dead \in Seq(TriedOut)
  /\ \A w \in Workers :
       /\ raw[w] # NoPayload => raw[w] \in Tried
       /\ at[w] \in {"ackFailed", "requeue"} => raw[w].retryCount < rejected[raw[w].notice]

\* Rejections are never taken back.
LEMMA TriesGrow ==
  ASSUME TypeOK, \A n \in Notices : rejected'[n] \in Nat /\ rejected[n] <= rejected'[n]
  PROVE  /\ Tried \subseteq Tried' /\ TriedOut \subseteq TriedOut'
         /\ \A s \in Seq(Tried) : s \in Seq(Tried')
         /\ \A s \in Seq(TriedOut) : s \in Seq(TriedOut')
<1>1. ASSUME NEW p \in Payload
      PROVE  /\ p.notice \in Notices /\ rejected[p.notice] \in Nat
             /\ rejected'[p.notice] \in Nat /\ rejected[p.notice] <= rejected'[p.notice]
             /\ p.retryCount \in Nat
  BY DEF Payload, TypeOK, Counts
<1>2. Tried \subseteq Tried'
  BY <1>1 DEF Tried
<1>3. TriedOut \subseteq TriedOut'
  BY <1>1, MaxCountAssumption DEF TriedOut
<1>4. \A S, T : S \subseteq T => \A s \in Seq(S) : s \in Seq(T)
  OBVIOUS
<1> QED
  BY <1>2, <1>3, <1>4

\* Steps that only move messages from list to list.
LEMMA TriesMove ==
  ASSUME TypeOK, TriesOK, rejected' = rejected,
         \/ queue' = queue \/ (queue' = Tail(queue) /\ queue # <<>>)
         \/ \E p \in Tried : queue' = Append(queue, p),
         \/ processing' = processing \/ (processing' = Tail(processing) /\ processing # <<>>)
         \/ \E p \in Tried : processing' = Append(processing, p)
         \/ \E p : processing' = RemoveFirst(processing, p),
         \/ dead' = dead \/ \E p \in TriedOut : dead' = Append(dead, p)
  PROVE  queue' \in Seq(Tried') /\ processing' \in Seq(Tried') /\ dead' \in Seq(TriedOut')
<1>1. Tried' = Tried /\ TriedOut' = TriedOut
  BY DEF Tried, TriedOut
<1>2. \A T : \A s \in Seq(T) : /\ s # <<>> => Tail(s) \in Seq(T)
                               /\ \A p \in T : Append(s, p) \in Seq(T)
  OBVIOUS
<1>3. \A s \in Seq(Tried) : \A p : RemoveFirst(s, p) \in Seq(Tried)
  BY CountRemoveFirst
<1> QED
  BY <1>1, <1>2, <1>3 DEF TriesOK

\* What a worker has in hand, when it alone moves and nothing is rejected.
LEMMA HandTried ==
  ASSUME TypeOK, TriesOK, rejected' = rejected, NEW w \in Workers,
         \A v \in Workers \ {w} : at'[v] = at[v] /\ raw'[v] = raw[v],
         raw'[w] # NoPayload => raw'[w] \in Tried,
         at'[w] \in {"ackFailed", "requeue"} =>
           at[w] \in {"ackFailed", "requeue"} /\ raw'[w] = raw[w]
  PROVE  \A v \in Workers :
           /\ raw'[v] # NoPayload => raw'[v] \in Tried'
           /\ at'[v] \in {"ackFailed", "requeue"} => raw'[v].retryCount < rejected'[raw'[v].notice]
<1>1. Tried' = Tried
  BY DEF Tried
<1> QED
  BY <1>1 DEF TriesOK

LEMMA WorkerKeepsTries ==
  ASSUME TypeOK, TypeOK', TriesOK, NEW w \in Workers, WorkerStep(w) \/ WorkerFault(w)
  PROVE  TriesOK'
<1>1. \A v \in Workers \ {w} : at'[v] = at[v] /\ raw'[v] = raw[v]
  BY DEF WorkerStep, WorkerFault, TryLock, SkipTick, TryLockReplyLost, Dequeue, DequeueEmpty,
         CreateOK, CreateRejected, CreateReplyLost, AckDone, AnnounceRetried, AckFailed, Requeue,
         Unlock, ReturnError, Crash, Goto, Done, workers, TypeOK, WorkersOK
\* An INSERT is rejected: the message has been tried once more than it says.
<1>2. CASE CreateRejected(w) \/ CreateReplyLost(w)
  <2>1. /\ at[w] = "create" /\ at'[w] = "ackFailed" /\ raw' = raw
        /\ rejected' = Inc(rejected, raw[w].notice) /\ UNCHANGED lists
    BY <1>2 DEF CreateRejected, CreateReplyLost, Goto, TypeOK, WorkersOK
  <2>2. raw[w] \in Payload /\ raw[w].notice \in Notices /\ raw[w] # NoPayload
    BY <2>1, InHand, PayloadAssumption DEF TypeOK
  <2>3. /\ \A n \in Notices : rejected'[n] \in Nat /\ rejected[n] <= rejected'[n]
        /\ rejected'[raw[w].notice] = rejected[raw[w].notice] + 1
        /\ rejected[raw[w].notice] \in Nat
    <3>1. \A n \in Notices : /\ rejected[n] \in Nat
                             /\ rejected'[n] = rejected[n] + Bit(raw[w].notice = n)
      BY <2>1, <2>2, CountsAt DEF TypeOK
    <3> QED
      BY <2>2, <3>1 DEF Bit
  <2>4. /\ Tried \subseteq Tried'
        /\ queue' \in Seq(Tried') /\ processing' \in Seq(Tried') /\ dead' \in Seq(TriedOut')
    BY <2>1, <2>3, TriesGrow DEF TriesOK, lists
  <2>5. \A v \in Workers : raw'[v] # NoPayload => raw'[v] \in Tried'
    BY <2>1, <2>4 DEF TriesOK
  <2>6. ASSUME NEW v \in Workers, at'[v] \in {"ackFailed", "requeue"}
        PROVE  raw'[v].retryCount < rejected'[raw'[v].notice]
    <3>1. CASE v = w
      <4>1. raw[w].retryCount <= rejected[raw[w].notice] /\ raw[w].retryCount \in Nat
        BY <2>2 DEF TriesOK, Tried, Payload
      <4>2. raw[w].retryCount < rejected'[raw[w].notice]
        BY <2>3, <4>1
      <4>3. raw'[v] = raw[w]
        BY <2>1, <3>1
      <4> QED
        BY <4>2, <4>3
    <3>2. CASE v # w
      <4>1. at[v] \in {"ackFailed", "requeue"} /\ raw'[v] = raw[v]
        BY <1>1, <2>6, <3>2
      <4>2. raw[v].notice \in Notices /\ raw[v].retryCount \in Nat
        BY <4>1, InHand DEF TypeOK
      <4>3. raw[v].retryCount < rejected[raw[v].notice] /\ rejected[raw[v].notice] \in Nat
        BY <4>1, <4>2 DEF TriesOK, TypeOK, Counts
      <4>4. rejected[raw[v].notice] <= rejected'[raw[v].notice] /\ rejected'[raw[v].notice] \in Nat
        BY <2>3, <4>2
      <4>5. raw[v].retryCount < rejected'[raw[v].notice]
        BY <4>2, <4>3, <4>4
      <4> QED
        BY <4>1, <4>5
    <3> QED
      BY <3>1, <3>2
  <2> QED
    BY <2>4, <2>5, <2>6 DEF TriesOK
<1>3. CASE Dequeue(w)
  <2>1. /\ at'[w] = "create" /\ raw'[w] = Head(queue) /\ rejected' = rejected /\ dead' = dead
        /\ queue # <<>> /\ queue' = Tail(queue) /\ processing' = Append(processing, Head(queue))
    BY <1>3 DEF Dequeue, Goto, TypeOK, WorkersOK, history
  <2>2. Head(queue) \in Tried
    BY <2>1 DEF TriesOK
  <2>3. queue' \in Seq(Tried') /\ processing' \in Seq(Tried') /\ dead' \in Seq(TriedOut')
    BY <2>1, <2>2, TriesMove
  <2> QED
    BY <1>1, <2>1, <2>2, <2>3, HandTried DEF TriesOK
<1>4. CASE Requeue(w)
  <2>1. /\ at[w] = "requeue" /\ at'[w] = "unlock" /\ raw'[w] = NoPayload
        /\ rejected' = rejected /\ processing' = processing
        /\ \/ /\ Retried(raw[w]).retryCount <= MaxCount
              /\ queue' = Append(queue, Retried(raw[w])) /\ dead' = dead
           \/ /\ Retried(raw[w]).retryCount > MaxCount
              /\ dead' = Append(dead, Retried(raw[w])) /\ queue' = queue
    BY <1>4 DEF Requeue, Done, TypeOK, WorkersOK, history
  <2>2. /\ raw[w].notice \in Notices /\ raw[w].retryCount \in Nat /\ raw[w] \in Tried
        /\ raw[w].retryCount < rejected[raw[w].notice] /\ rejected[raw[w].notice] \in Nat
    BY <2>1, InHand, PayloadAssumption DEF TypeOK, TriesOK, Counts
  <2>3. /\ Retried(raw[w]) \in Payload /\ Retried(raw[w]).notice = raw[w].notice
        /\ Retried(raw[w]).retryCount = raw[w].retryCount + 1
    BY <2>2 DEF Retried, Payload
  <2>4. raw[w].retryCount <= MaxCount
    BY <2>2 DEF Tried
  <2>5. IF Retried(raw[w]).retryCount <= MaxCount
        THEN Retried(raw[w]) \in Tried ELSE Retried(raw[w]) \in TriedOut
    BY <2>2, <2>3, <2>4, MaxCountAssumption DEF Tried, TriedOut
  <2>6. queue' \in Seq(Tried') /\ processing' \in Seq(Tried') /\ dead' \in Seq(TriedOut')
    <3>1. CASE Retried(raw[w]).retryCount <= MaxCount
      <4>1. queue' = Append(queue, Retried(raw[w])) /\ dead' = dead /\ Retried(raw[w]) \in Tried
        BY <2>1, <2>3, <2>2, <2>5, <3>1, MaxCountAssumption
      <4> QED
        BY <2>1, <4>1, TriesMove
    <3>2. CASE ~ Retried(raw[w]).retryCount <= MaxCount
      <4>1. dead' = Append(dead, Retried(raw[w])) /\ queue' = queue /\ Retried(raw[w]) \in TriedOut
        BY <2>1, <2>5, <3>2
      <4> QED
        BY <2>1, <4>1, TriesMove
    <3> QED
      BY <3>1, <3>2
  <2> QED
    BY <1>1, <2>1, <2>6, HandTried DEF TriesOK
\* The other steps at most take a message out of processing.
<1>5. CASE \/ TryLock(w) \/ SkipTick(w) \/ TryLockReplyLost(w) \/ DequeueEmpty(w) \/ CreateOK(w)
           \/ AckDone(w) \/ AnnounceRetried(w) \/ AckFailed(w) \/ Unlock(w)
           \/ ReturnError(w) \/ Crash(w)
  <2>1. /\ rejected' = rejected /\ queue' = queue /\ dead' = dead
        /\ processing' = processing \/ \E p : processing' = RemoveFirst(processing, p)
    BY <1>5 DEF TryLock, SkipTick, TryLockReplyLost, DequeueEmpty, CreateOK, AckDone,
                AnnounceRetried, AckFailed, Unlock, ReturnError, Crash, history, lists
  <2>2. queue' \in Seq(Tried') /\ processing' \in Seq(Tried') /\ dead' \in Seq(TriedOut')
    BY <2>1, TriesMove
  <2>3. /\ raw'[w] = raw[w] \/ raw'[w] = NoPayload
        /\ at'[w] \in {"ackFailed", "requeue"} => at[w] \in {"ackFailed", "requeue"} /\ raw'[w] = raw[w]
    BY <1>5 DEF TryLock, SkipTick, TryLockReplyLost, DequeueEmpty, CreateOK, AckDone,
                AnnounceRetried, AckFailed, Unlock, ReturnError, Crash, Goto, Done, workers,
                TypeOK, WorkersOK
  <2>4. raw'[w] # NoPayload => raw'[w] \in Tried
    BY <2>3 DEF TriesOK
  <2> QED
    BY <1>1, <2>1, <2>2, <2>3, <2>4, HandTried DEF TriesOK
<1> QED
  BY <1>2, <1>3, <1>4, <1>5 DEF WorkerStep, WorkerFault

LEMMA TriesKept ==
  ASSUME TypeOK, TypeOK', TriesOK, [Next]_vars
  PROVE  TriesOK'
<1>1. ASSUME UNCHANGED <<workers, rejected>>,
             queue' \in Seq(Tried') /\ processing' \in Seq(Tried') /\ dead' \in Seq(TriedOut')
      PROVE  TriesOK'
  <2>1. Tried' = Tried
    BY <1>1 DEF Tried
  <2> QED
    BY <1>1, <2>1 DEF TriesOK, workers
<1>2. ASSUME NEW n \in Notices, CallStep(n)
      PROVE  TriesOK'
  <2>1. /\ UNCHANGED <<workers, rejected, processing, dead>>
        /\ queue' = queue \/ queue' = Append(queue, [notice |-> n, retryCount |-> 0])
    BY <1>2 DEF CallStep, Call, InsertOK, InsertRejected, InsertReplyLost, Announce, Enqueue,
                CallFails, lists, history
  <2>2. [notice |-> n, retryCount |-> 0] \in Tried
    BY MaxCountAssumption DEF Tried, Payload, TypeOK, Counts
  <2> QED
    BY <1>1, <2>1, <2>2, TriesMove
<1>3. CASE Recover
  <2>1. /\ UNCHANGED <<workers, rejected, dead>> /\ processing # <<>>
        /\ processing' = Tail(processing) /\ queue' = Append(queue, Head(processing))
    BY <1>3 DEF Recover
  <2>2. Head(processing) \in Tried
    BY <2>1 DEF TriesOK
  <2> QED
    BY <1>1, <2>1, <2>2, TriesMove
<1>4. CASE LockExpires \/ UNCHANGED vars
  <2>1. UNCHANGED <<workers, rejected, queue, processing, dead>>
    BY <1>4 DEF LockExpires, vars, lists, history
  <2> QED
    BY <1>1, <2>1, TriesMove
<1> QED
  BY <1>2, <1>3, <1>4, WorkerKeepsTries DEF Next

\* The price of x admissions to the queue, in attempts.
Cost(x) == (MaxCount + 1) * x

LEMMA CostSteps ==
  ASSUME NEW x \in Nat
  PROVE  /\ Cost(x) \in Nat
         /\ Cost(x + 1) = Cost(x) + MaxCount + 1
         /\ Cost(0) = 0
         /\ x > 0 => Cost(x - 1) = Cost(x) - (MaxCount + 1) /\ Cost(x - 1) \in Nat
<1> DEFINE K == MaxCount + 1
<1>0. K \in Nat
  BY MaxCountAssumption
<1> HIDE DEF K
<1>1. /\ K * x \in Nat /\ K * (x + 1) = K * x + K /\ K * 0 = 0
      /\ K * (x - 1) = K * x - K
  BY <1>0
<1>2. x > 0 => x - 1 \in Nat
  OBVIOUS
<1>3. x > 0 => K * (x - 1) \in Nat
  BY <1>0, <1>2
<1> QED
  BY <1>0, <1>1, <1>3, MaxCountAssumption DEF Cost, K

\* Every admission to the queue, by a call or by a replay, pays for MaxCount + 1
\* attempts, of which some were made and some are still to come.
Limit(n) ==
  rejected[n] + Cardinality(QueuedAttempts(queue, n)) + Cardinality(HeldAttempts(n))
    + Cost(inserting[n]) + Cost(enqueuing[n])
  <= Cost(requested[n]) + Cost(replayed[n])

LimitTypes(n) ==
  /\ rejected[n] \in Nat
  /\ Cardinality(QueuedAttempts(queue, n)) \in Nat /\ Cardinality(HeldAttempts(n)) \in Nat
  /\ Cost(inserting[n]) \in Nat /\ Cost(enqueuing[n]) \in Nat
  /\ Cost(requested[n]) \in Nat /\ Cost(replayed[n]) \in Nat

LEMMA HeldAttemptsType ==
  ASSUME NEW n
  PROVE  Cardinality(HeldAttempts(n)) \in Nat
<1>1. IsFiniteSet(Workers) /\ IsFiniteSet(0..MaxCount)
  BY FS_Interval, WorkersAssumption, MaxCountAssumption
<1>2. IsFiniteSet(Workers \X (0..MaxCount))
  BY <1>1, FS_Product
<1>3. HeldAttempts(n) \subseteq Workers \X (0..MaxCount)
  BY DEF HeldAttempts, Holding
<1> QED
  BY <1>2, <1>3, FS_Subset, FS_CardinalityType

LEMMA LimitTyped ==
  ASSUME TypeOK, NEW n \in Notices
  PROVE  LimitTypes(n)
BY HeldAttemptsType, QueuedType, CostSteps DEF TypeOK, Counts, LimitTypes

\* The payload of an admission may cost MaxCount + 1 attempts, any other less.
LEMMA LeftBounds ==
  ASSUME NEW p \in Payload, NEW n
  PROVE  /\ Left(p, n) \in Nat /\ Left(p, n) <= MaxCount + 1
         /\ p.notice # n => Left(p, n) = 0
         /\ p.notice = n /\ p.retryCount = 0 => Left(p, n) = MaxCount + 1
         /\ p.notice = n => Left(p, n) = Span(p.retryCount)
BY MaxCountAssumption DEF Payload, Left, Span

\* What changes on one side of the limit is made good on the other.
LEMMA LimitMoves ==
  ASSUME TypeOK, TypeOK', NEW n \in Notices, Limit(n),
         NEW k \in Nat,
         rejected'[n] + Cardinality(QueuedAttempts(queue, n)') + Cardinality(HeldAttempts(n)')
           <= rejected[n] + Cardinality(QueuedAttempts(queue, n)) + Cardinality(HeldAttempts(n)) + k,
         Cost(inserting'[n]) + Cost(enqueuing'[n]) + Cost(requested[n]) + Cost(replayed[n]) + k
           <= Cost(inserting[n]) + Cost(enqueuing[n]) + Cost(requested'[n]) + Cost(replayed'[n])
  PROVE  Limit(n)'
<1> DEFINE a == rejected[n]
           b == Cardinality(QueuedAttempts(queue, n))
           c == Cardinality(HeldAttempts(n))
           d == Cost(inserting[n])
           e == Cost(enqueuing[n])
           f == Cost(requested[n])
           g == Cost(replayed[n])
           a1 == rejected'[n]
           b1 == Cardinality(QueuedAttempts(queue, n)')
           c1 == Cardinality(HeldAttempts(n)')
           d1 == Cost(inserting'[n])
           e1 == Cost(enqueuing'[n])
           f1 == Cost(requested'[n])
           g1 == Cost(replayed'[n])
<1>1. a \in Nat /\ b \in Nat /\ c \in Nat /\ d \in Nat /\ e \in Nat /\ f \in Nat /\ g \in Nat
  BY LimitTyped DEF LimitTypes
<1>2. /\ rejected' \in Counts /\ inserting' \in Counts /\ enqueuing' \in Counts
      /\ requested' \in Counts /\ replayed' \in Counts /\ queue' \in Seq(Payload)
  BY DEF TypeOK
<1>3. a1 \in Nat /\ d1 \in Nat /\ e1 \in Nat /\ f1 \in Nat /\ g1 \in Nat
  BY <1>2, CostSteps DEF Counts
<1>4. b1 \in Nat
  <2>1. b1 = Cardinality(QueuedAttempts(queue', n))
    BY DEF QueuedAttempts
  <2> QED
    BY <1>2, <2>1, QueuedType
<1>5. c1 \in Nat
  <2>1. HeldAttempts(n)' \subseteq Workers \X (0..MaxCount)
    BY DEF HeldAttempts, Holding
  <2>2. IsFiniteSet(Workers \X (0..MaxCount))
    <3>1. IsFiniteSet(0..MaxCount)
      BY FS_Interval, MaxCountAssumption
    <3> QED
      BY <3>1, FS_Product, WorkersAssumption
  <2> QED
    BY <2>1, <2>2, FS_Subset, FS_CardinalityType
<1>6. a + b + c + d + e <= f + g
  BY DEF Limit
<1>7. a1 + b1 + c1 <= a + b + c + k /\ d1 + e1 + f + g + k <= d + e + f1 + g1
  OBVIOUS
<1>8. (a1 + b1 + c1 + d1 + e1 <= f1 + g1) => Limit(n)'
  BY DEF Limit
<1> HIDE DEF a, b, c, d, e, f, g, a1, b1, c1, d1, e1, f1, g1
<1>9. a1 + b1 + c1 + d1 + e1 <= f1 + g1
  BY <1>1, <1>3, <1>4, <1>5, <1>6, <1>7
<1> QED
  BY <1>8, <1>9

LEMMA CostMoves ==
  ASSUME NEW x \in Nat, NEW y \in Nat
  PROVE  /\ Cost(x) \in Nat /\ Cost(y) \in Nat
         /\ y = x + 1 => Cost(y) = Cost(x) + (MaxCount + 1)
         /\ x = y + 1 => Cost(x) = Cost(y) + (MaxCount + 1)
<1>1. y = x + 1 => Cost(y) = Cost(x) + (MaxCount + 1)
  BY CostSteps, MaxCountAssumption
<1>2. x = y + 1 => Cost(x) = Cost(y) + (MaxCount + 1)
  BY CostSteps, MaxCountAssumption
<1> QED
  BY <1>1, <1>2, CostSteps

LEMMA CallKeepsLimit ==
  ASSUME TypeOK, TypeOK', NEW m \in Notices, CallStep(m), NEW n \in Notices, Limit(n)
  PROVE  Limit(n)'
<1> DEFINE Q == Cardinality(QueuedAttempts(queue, n))
           Q1 == Cardinality(QueuedAttempts(queue, n)')
           H == Cardinality(HeldAttempts(n))
           K == MaxCount + 1
           p0 == [notice |-> m, retryCount |-> 0]
<1>1. /\ rejected[n] \in Nat /\ Q \in Nat /\ H \in Nat /\ K \in Nat
      /\ requested[n] \in Nat /\ inserting[n] \in Nat /\ enqueuing[n] \in Nat /\ replayed[n] \in Nat
      /\ requested'[n] \in Nat /\ inserting'[n] \in Nat
      /\ enqueuing'[n] \in Nat /\ replayed'[n] \in Nat
  <2>1. rejected[n] \in Nat /\ Q \in Nat /\ H \in Nat
    BY LimitTyped DEF LimitTypes
  <2>2. /\ requested \in Counts /\ inserting \in Counts /\ enqueuing \in Counts /\ replayed \in Counts
        /\ requested' \in Counts /\ inserting' \in Counts
        /\ enqueuing' \in Counts /\ replayed' \in Counts
    BY DEF TypeOK
  <2>3. \A f \in Counts : f[n] \in Nat
    BY DEF Counts
  <2> QED
    BY <2>1, <2>2, <2>3, MaxCountAssumption
<1>2. rejected'[n] = rejected[n] /\ HeldAttempts(n)' = HeldAttempts(n)
  BY DEF CallStep, Call, InsertOK, InsertRejected, InsertReplyLost, Announce, Enqueue,
         CallFails, history, HeldAttempts, Holding, NextCount, workers
<1>3. \/ queue' = queue /\ ~ Enqueue(m)
      \/ Enqueue(m) /\ queue' = Append(queue, p0)
  BY DEF CallStep, Call, InsertOK, InsertRejected, InsertReplyLost, Announce, Enqueue,
         CallFails, lists, TypeOK, Counts, Dec
<1>4. p0 \in Payload /\ Left(p0, n) = IF m = n THEN K ELSE 0
  BY MaxCountAssumption DEF Payload, Left, Span
<1>5. queue' = queue => Q1 = Q
  BY DEF QueuedAttempts
<1>6. queue' = Append(queue, p0) => Q1 = Q + Left(p0, n)
  <2>1. Q1 = Cardinality(QueuedAttempts(queue', n))
    BY DEF QueuedAttempts
  <2> HIDE DEF p0
  <2>2. Cardinality(QueuedAttempts(Append(queue, p0), n)) = Q + Left(p0, n)
    BY <1>4, QueuedAppend DEF TypeOK
  <2> QED
    BY <2>1, <2>2
<1> HIDE DEF p0
<1>7. CASE m # n
  <2>1. UNCHANGED <<requested[n], inserting[n], enqueuing[n], replayed[n]>>
    BY <1>7 DEF CallStep, Call, InsertOK, InsertRejected, InsertReplyLost, Announce, Enqueue,
                CallFails, history, Inc, Dec, TypeOK, Counts
  <2>2. Q1 = Q
    BY <1>1, <1>3, <1>4, <1>5, <1>6, <1>7
  <2>3. /\ rejected'[n] + Q1 + Cardinality(HeldAttempts(n)') <= rejected[n] + Q + H + 0
    BY <1>1, <1>2, <2>2
  <2>4. Cost(inserting'[n]) + Cost(enqueuing'[n]) + Cost(requested[n]) + Cost(replayed[n]) + 0
          <= Cost(inserting[n]) + Cost(enqueuing[n]) + Cost(requested'[n]) + Cost(replayed'[n])
    <3>1. /\ Cost(inserting[n]) \in Nat /\ Cost(enqueuing[n]) \in Nat
          /\ Cost(requested[n]) \in Nat /\ Cost(replayed[n]) \in Nat
      BY LimitTyped DEF LimitTypes
    <3> QED
      BY <2>1, <3>1
  <2> QED
    BY <2>3, <2>4, LimitMoves
<1>8. CASE m = n
  <2> DEFINE i == Cost(inserting[n])
             e == Cost(enqueuing[n])
             r == Cost(requested[n])
             s == Cost(replayed[n])
             i1 == Cost(inserting'[n])
             e1 == Cost(enqueuing'[n])
             r1 == Cost(requested'[n])
             s1 == Cost(replayed'[n])
  <2>0. /\ i \in Nat /\ e \in Nat /\ r \in Nat /\ s \in Nat
        /\ i1 \in Nat /\ e1 \in Nat /\ r1 \in Nat /\ s1 \in Nat
    BY <1>1, CostMoves
  <2>1. /\ inserting'[n] = inserting[n] + 1 => i1 = i + K
        /\ inserting[n] = inserting'[n] + 1 => i = i1 + K
        /\ inserting[n] = inserting'[n] => i = i1
    BY <1>1, CostMoves
  <2>2. /\ enqueuing'[n] = enqueuing[n] + 1 => e1 = e + K
        /\ enqueuing[n] = enqueuing'[n] + 1 => e = e1 + K
        /\ enqueuing[n] = enqueuing'[n] => e = e1
    BY <1>1, CostMoves
  <2>3. /\ requested'[n] = requested[n] + 1 => r1 = r + K
        /\ requested[n] = requested'[n] => r = r1
    BY <1>1, CostMoves
  <2>4. /\ replayed'[n] = replayed[n] + 1 => s1 = s + K
        /\ replayed[n] = replayed'[n] => s = s1
    BY <1>1, CostMoves
  <2> USE <1>8
  <2>5. \/ /\ r1 = r + K /\ i1 = i + K /\ e1 = e /\ s1 = s /\ queue' = queue
        \/ /\ r1 = r /\ i = i1 + K /\ e1 = e /\ s1 = s /\ queue' = queue
        \/ /\ r1 = r /\ i = i1 + K /\ e1 = e + K /\ s1 = s /\ queue' = queue
        \/ /\ r1 = r /\ i = i1 + K /\ e1 = e + K /\ s1 = s + K /\ queue' = queue
        \/ /\ r1 = r /\ i = i1 /\ e1 = e /\ s1 = s /\ queue' = queue
        \/ /\ r1 = r /\ i = i1 /\ e = e1 + K /\ s1 = s
    <3>0. /\ Inc(requested, n)[n] = requested[n] + 1 /\ Inc(inserting, n)[n] = inserting[n] + 1
          /\ Inc(enqueuing, n)[n] = enqueuing[n] + 1 /\ Inc(replayed, n)[n] = replayed[n] + 1
          /\ inserting[n] = Dec(inserting, n)[n] + 1 /\ enqueuing[n] = Dec(enqueuing, n)[n] + 1
      <4>1. \A f \in Counts : Inc(f, n)[n] = f[n] + 1 /\ f[n] = Dec(f, n)[n] + 1
        BY DEF Counts, Inc, Dec
      <4> QED
        BY <4>1 DEF TypeOK
    <3> HIDE DEF i, e, r, s, i1, e1, r1, s1, K
    <3>1. CASE Call(m)
      <4>1. /\ requested'[n] = requested[n] + 1 /\ inserting'[n] = inserting[n] + 1
            /\ UNCHANGED <<enqueuing, replayed, queue>>
        BY <3>0, <3>1 DEF Call, lists
      <4> QED
        BY <4>1, <2>1, <2>2, <2>3, <2>4
    <3>2. CASE InsertOK(m)
      <4>1. /\ inserting[n] = inserting'[n] + 1
            /\ UNCHANGED <<requested, enqueuing, replayed, queue>>
        BY <3>0, <3>2 DEF InsertOK, lists, history
      <4> QED
        BY <4>1, <2>1, <2>2, <2>3, <2>4
    <3>3. CASE InsertRejected(m)
      <4>1. /\ inserting[n] = inserting'[n] + 1 /\ enqueuing'[n] = enqueuing[n] + 1
            /\ UNCHANGED <<requested, replayed, queue>>
        BY <3>0, <3>3 DEF InsertRejected, lists, history
      <4> QED
        BY <4>1, <2>1, <2>2, <2>3, <2>4
    <3>4. CASE InsertReplyLost(m)
      <4>1. /\ inserting[n] = inserting'[n] + 1 /\ enqueuing'[n] = enqueuing[n] + 1
            /\ replayed'[n] = replayed[n] + 1 /\ UNCHANGED <<requested, queue>>
        BY <3>0, <3>4 DEF InsertReplyLost, lists
      <4> QED
        BY <4>1, <2>1, <2>2, <2>3, <2>4
    <3>5. CASE Announce(m)
      <4>1. UNCHANGED <<requested, inserting, enqueuing, replayed, queue>>
        BY <3>5 DEF Announce, lists, history
      <4> QED
        BY <4>1, <2>1, <2>2, <2>3, <2>4
    <3>6. CASE Enqueue(m)
      <4>1. enqueuing[n] = enqueuing'[n] + 1 /\ UNCHANGED <<requested, inserting, replayed>>
        BY <3>0, <3>6 DEF Enqueue, history
      <4> QED
        BY <4>1, <2>1, <2>2, <2>3, <2>4
    <3>7. CASE CallFails(m)
      <4>1. /\ UNCHANGED <<requested, replayed, queue>>
            /\ \/ inserting[n] = inserting'[n] + 1 /\ enqueuing' = enqueuing
               \/ enqueuing[n] = enqueuing'[n] + 1 /\ inserting' = inserting
               \/ UNCHANGED <<inserting, enqueuing>>
        BY <3>0, <3>7 DEF CallFails, lists
      <4> QED
        BY <4>1, <2>1, <2>2, <2>3, <2>4
    <3> QED
      BY <3>1, <3>2, <3>3, <3>4, <3>5, <3>6, <3>7 DEF CallStep
  <2>6. /\ queue' = queue => Q1 = Q
        /\ queue' # queue => Q1 = Q + K /\ i = i1 /\ e = e1 + K /\ r1 = r /\ s1 = s
    <3>1. queue' # queue => i = i1 /\ e = e1 + K /\ r1 = r /\ s1 = s
      <4> HIDE DEF i, e, r, s, i1, e1, r1, s1, K
      <4> QED
        BY <2>5
    <3>2. queue' # queue => Q1 = Q + K
      BY <1>3, <1>4, <1>6
    <3> QED
      BY <1>5, <3>1, <3>2
  <2>7. PICK k \in {0, K} : Q1 <= Q + k /\ i1 + e1 + r + s + k <= i + e + r1 + s1
    <3> HIDE DEF i, e, r, s, i1, e1, r1, s1, K, Q, Q1
    <3>1. CASE queue' = queue
      <4>1. Q1 <= Q + 0
        BY <2>6, <3>1, <1>1
      <4>2. i1 + e1 + r + s + 0 <= i + e + r1 + s1
        BY <2>5, <2>0, <1>1
      <4> QED
        BY <4>1, <4>2
    <3>2. CASE queue' # queue
      <4>1. Q1 <= Q + K
        BY <2>6, <3>2, <1>1
      <4>2. i1 + e1 + r + s + K <= i + e + r1 + s1
        BY <2>6, <3>2, <2>0, <1>1
      <4> QED
        BY <4>1, <4>2
    <3> QED
      BY <3>1, <3>2
  <2>8. k \in Nat
    BY <1>1, <2>7
  <2>9. rejected'[n] + Q1 + Cardinality(HeldAttempts(n)') <= rejected[n] + Q + H + k
    <3>1. Q1 \in Nat
      BY <1>1, <1>3, <1>4, <1>5, <1>6
    <3> HIDE DEF Q, Q1
    <3> QED
      BY <1>1, <1>2, <2>7, <2>8, <3>1
  <2> QED
    BY <2>7, <2>8, <2>9, LimitMoves
<1> QED
  BY <1>7, <1>8

LEMMA WorkerKeepsLimit ==
  ASSUME TypeOK, TypeOK', TriesOK, NEW w \in Workers, WorkerStep(w) \/ WorkerFault(w),
         NEW n \in Notices, Limit(n)
  PROVE  Limit(n)'
<1> DEFINE Q == Cardinality(QueuedAttempts(queue, n))
           Q1 == Cardinality(QueuedAttempts(queue, n)')
           H == Cardinality(HeldAttempts(n))
           H1 == Cardinality(HeldAttempts(n)')
           L == HandLeft(w, n)
           L1 == HandLeft(w, n)'
           r == rejected[n]
           r1 == rejected'[n]
           b == Bit(raw[w].notice = n)
<1>1. r \in Nat /\ r1 \in Nat /\ Q \in Nat /\ MaxCount \in Nat /\ b \in {0, 1}
  BY LimitTyped, MaxCountAssumption DEF LimitTypes, Bit, TypeOK, Counts
<1>2. UNCHANGED <<requested, inserting, enqueuing>>
  BY DEF WorkerStep, WorkerFault, TryLock, SkipTick, TryLockReplyLost, Dequeue, DequeueEmpty,
         CreateOK, CreateRejected, CreateReplyLost, AckDone, AnnounceRetried, AckFailed, Requeue,
         Unlock, ReturnError, Crash, calls, history
<1>3. \A v \in Workers \ {w} : at'[v] = at[v] /\ raw'[v] = raw[v]
  BY DEF WorkerStep, WorkerFault, TryLock, SkipTick, TryLockReplyLost, Dequeue, DequeueEmpty,
         CreateOK, CreateRejected, CreateReplyLost, AckDone, AnnounceRetried, AckFailed, Requeue,
         Unlock, ReturnError, Crash, Goto, Done, workers, TypeOK, WorkersOK
<1>4. H \in Nat /\ H1 \in Nat /\ H1 + L = H + L1
  <2>1. H1 = Cardinality(HeldAttempts(n))'
    BY DEF HeldAttempts, Holding, NextCount
  <2> QED
    BY <1>3, <2>1, HeldAttemptsMove
\* What the worker tries, puts back or takes was its own to spend.
<1>5. L \in Nat /\ L1 \in Nat /\ Q1 \in Nat /\ r1 + Q1 + L1 <= r + Q + L
  <2>1. ASSUME NEW v \in Workers, at[v] \in {"create", "ackFailed", "requeue"}
        PROVE  /\ raw[v] \in Payload /\ raw[v] \in Tried /\ raw[v].retryCount \in Nat
               /\ raw[v].retryCount <= MaxCount
    BY <2>1, InHand, PayloadAssumption DEF TypeOK, TriesOK, Tried, Payload
  <2>2. L \in Nat
    BY <2>1, MaxCountAssumption DEF HandLeft, Span, NextCount
  <2>3. \A s \in Seq(Payload) : queue' = s => Q1 = Cardinality(QueuedAttempts(s, n))
    BY DEF QueuedAttempts
  <2>4. queue' = queue => Q1 = Q
    BY DEF QueuedAttempts
  <2>5. CASE Dequeue(w)
    <3>1. /\ queue # <<>> /\ queue' = Tail(queue) /\ rejected' = rejected
          /\ at[w] = "dequeue" /\ at'[w] = "create" /\ raw'[w] = Head(queue)
          /\ queue \in Seq(Payload) /\ Tail(queue) \in Seq(Payload) /\ Head(queue) \in Payload
      BY <2>5 DEF Dequeue, Goto, history, TypeOK, WorkersOK
    <3>2. Q = Q1 + Left(Head(queue), n) /\ Q1 \in Nat
      BY <3>1, <2>3, QueuedTail, QueuedType
    <3>3. L = 0
      BY <3>1 DEF HandLeft
    <3>4. L1 = Left(Head(queue), n)
      BY <3>1 DEF HandLeft, Left, NextCount
    <3>5. Left(Head(queue), n) \in Nat
      BY <3>1, LeftBounds
    <3> HIDE DEF Q, Q1, L, L1
    <3> QED
      BY <3>1, <3>2, <3>3, <3>4, <3>5, <1>1
  <2>6. CASE CreateRejected(w) \/ CreateReplyLost(w)
    <3>1. /\ at[w] = "create" /\ at'[w] = "ackFailed" /\ raw' = raw /\ queue' = queue
          /\ rejected' = Inc(rejected, raw[w].notice)
      BY <2>6 DEF CreateRejected, CreateReplyLost, Goto, lists, TypeOK, WorkersOK
    <3>2. raw[w].retryCount \in Nat /\ raw[w].retryCount <= MaxCount
      BY <2>1, <3>1
    <3>3. r1 = r + b
      <4>1. raw[w].notice \in Notices /\ rejected \in Counts
        BY <3>1, InHand DEF TypeOK
      <4> QED
        BY <3>1, <4>1, CountsAt
    <3>4. L = L1 + b /\ L1 \in Nat
      BY <3>1, <3>2, MaxCountAssumption DEF HandLeft, NextCount, Span, Bit
    <3> HIDE DEF Q, Q1, L, L1, b, r, r1
    <3> QED
      BY <3>1, <3>3, <3>4, <2>2, <2>4, <1>1
  <2>7. CASE Requeue(w)
    <3> DEFINE p == Retried(raw[w])
    <3>1. /\ at[w] = "requeue" /\ at'[w] = "unlock" /\ rejected' = rejected
          /\ \/ p.retryCount <= MaxCount /\ queue' = Append(queue, p)
             \/ p.retryCount > MaxCount /\ queue' = queue
      BY <2>7 DEF Requeue, Done, history, TypeOK, WorkersOK
    <3>2. p \in Payload /\ p.notice = raw[w].notice /\ p.retryCount = raw[w].retryCount + 1
      BY <2>1, <3>1 DEF Retried, Payload
    <3>3. L = Left(p, n) /\ L1 = 0
      BY <3>1, <3>2 DEF HandLeft, Left, NextCount
    <3>4. queue \in Seq(Payload)
      BY DEF TypeOK
    <3> HIDE DEF p
    <3>5. CASE queue' = queue
      BY <3>1, <3>3, <3>5, <2>2, <2>4, <1>1
    <3>6. CASE queue' = Append(queue, p)
      <4>1. Q1 = Q + Left(p, n)
        BY <3>2, <3>4, <3>6, <2>3, QueuedAppend
      <4> HIDE DEF Q, Q1, L, L1
      <4> QED
        BY <4>1, <3>1, <3>3, <2>2, <1>1
    <3> QED
      BY <3>1, <3>5, <3>6
  <2>8. CASE AckFailed(w)
    <3>1. /\ at[w] = "ackFailed" /\ at'[w] = "requeue" /\ raw' = raw
          /\ queue' = queue /\ rejected' = rejected
      BY <2>8 DEF AckFailed, Goto, history, TypeOK, WorkersOK
    <3>2. L1 = L
      BY <3>1 DEF HandLeft, NextCount
    <3> HIDE DEF Q, Q1, L, L1
    <3> QED
      BY <3>1, <3>2, <2>2, <2>4, <1>1
  <2>9. CASE \/ TryLock(w) \/ SkipTick(w) \/ TryLockReplyLost(w) \/ DequeueEmpty(w) \/ CreateOK(w)
             \/ AckDone(w) \/ AnnounceRetried(w) \/ Unlock(w) \/ ReturnError(w) \/ Crash(w)
    <3>1. /\ queue' = queue /\ rejected' = rejected
          /\ at'[w] \in {"tick", "dequeue", "ackDone", "announce", "unlock"}
      BY <2>9 DEF TryLock, SkipTick, TryLockReplyLost, DequeueEmpty, CreateOK, AckDone,
                  AnnounceRetried, Unlock, ReturnError, Crash, Goto, Done, workers,
                  history, lists, TypeOK, WorkersOK
    <3>2. L1 = 0
      BY <3>1 DEF HandLeft
    <3> HIDE DEF Q, Q1, L, L1
    <3> QED
      BY <3>1, <3>2, <2>2, <2>4, <1>1
  <2> QED
    BY <2>2, <2>5, <2>6, <2>7, <2>8, <2>9 DEF WorkerStep, WorkerFault
<1>6. Cost(replayed[n]) <= Cost(replayed'[n])
  <2>1. replayed'[n] = replayed[n] \/ replayed'[n] = replayed[n] + 1
    <3>1. CASE CreateReplyLost(w)
      <4>1. at[w] = "create" /\ replayed' = Inc(replayed, raw[w].notice)
        BY <3>1 DEF CreateReplyLost
      <4> QED
        BY <4>1 DEF Inc, TypeOK, Counts
    <3>2. CASE ~ CreateReplyLost(w)
      BY <3>2 DEF WorkerStep, WorkerFault, TryLock, SkipTick, TryLockReplyLost, Dequeue,
         DequeueEmpty, CreateOK, CreateRejected, AckDone, AnnounceRetried, AckFailed, Requeue,
         Unlock, ReturnError, Crash, history
    <3> QED
      BY <3>1, <3>2
  <2>2. replayed[n] \in Nat /\ replayed'[n] \in Nat
    BY DEF TypeOK, Counts
  <2>3. Cost(replayed[n]) \in Nat
    BY <2>2, CostMoves
  <2> QED
    BY <2>1, <2>2, <2>3, CostMoves, MaxCountAssumption
<1>7. Cost(inserting'[n]) + Cost(enqueuing'[n]) + Cost(requested[n]) + Cost(replayed[n]) + 0
        <= Cost(inserting[n]) + Cost(enqueuing[n]) + Cost(requested'[n]) + Cost(replayed'[n])
  <2>1. /\ Cost(inserting[n]) \in Nat /\ Cost(enqueuing[n]) \in Nat
        /\ Cost(requested[n]) \in Nat /\ Cost(replayed[n]) \in Nat
    BY LimitTyped DEF LimitTypes
  <2>2. Cost(replayed'[n]) \in Nat
    BY CostMoves DEF TypeOK, Counts
  <2> QED
    BY <1>2, <1>6, <2>1, <2>2
<1>8. r1 + Q1 + H1 <= r + Q + H + 0
  <2> HIDE DEF Q, Q1, H, H1, L, L1, r, r1
  <2> QED
    BY <1>1, <1>4, <1>5
<1> QED
  BY <1>7, <1>8, LimitMoves

LEMMA RecoverKeepsLimit ==
  ASSUME TypeOK, TypeOK', Recover, NEW n \in Notices, Limit(n)
  PROVE  Limit(n)'
<1> DEFINE p == Head(processing)
           Q == Cardinality(QueuedAttempts(queue, n))
           Q1 == Cardinality(QueuedAttempts(queue, n)')
           H == Cardinality(HeldAttempts(n))
           l == Left(p, n)
<1>1. /\ processing # <<>> /\ queue' = Append(queue, p) /\ replayed' = Inc(replayed, p.notice)
      /\ UNCHANGED <<rejected, requested, inserting, enqueuing, workers>>
  BY DEF Recover, calls
<1>2. p \in Payload /\ queue \in Seq(Payload) /\ p.notice \in Notices
  BY <1>1 DEF TypeOK, Payload
<1> HIDE DEF p
<1>3. Q1 = Q + l
  <2>1. Q1 = Cardinality(QueuedAttempts(queue', n))
    BY DEF QueuedAttempts
  <2> QED
    BY <1>1, <1>2, <2>1, QueuedAppend
<1>4. HeldAttempts(n)' = HeldAttempts(n)
  BY <1>1 DEF HeldAttempts, Holding, NextCount, workers
<1>5. l \in Nat /\ l <= MaxCount + 1 /\ (p.notice # n => l = 0)
  BY <1>2, LeftBounds
<1>6. /\ rejected[n] \in Nat /\ Q \in Nat /\ H \in Nat
      /\ Cost(inserting[n]) \in Nat /\ Cost(enqueuing[n]) \in Nat
      /\ Cost(requested[n]) \in Nat /\ Cost(replayed[n]) \in Nat
  BY LimitTyped DEF LimitTypes
<1>7. Cost(replayed[n]) + l <= Cost(replayed'[n]) /\ Cost(replayed'[n]) \in Nat
  <2>1. replayed[n] \in Nat /\ replayed'[n] \in Nat
    BY DEF TypeOK, Counts
  <2>2. CASE p.notice = n
    <3>1. replayed'[n] = replayed[n] + 1
      BY <1>1, <2>2 DEF Inc, TypeOK, Counts
    <3>2. Cost(replayed'[n]) = Cost(replayed[n]) + (MaxCount + 1)
      BY <2>1, <3>1, CostMoves
    <3> HIDE DEF l
    <3> QED
      BY <3>2, <1>5, <1>6, <2>1, CostMoves, MaxCountAssumption
  <2>3. CASE p.notice # n
    <3>1. replayed'[n] = replayed[n]
      BY <1>1, <1>2, <2>3 DEF Inc, TypeOK, Counts
    <3> HIDE DEF l
    <3> QED
      BY <3>1, <2>3, <1>5, <1>6
  <2> QED
    BY <2>2, <2>3
<1>8. rejected'[n] + Q1 + Cardinality(HeldAttempts(n)') <= rejected[n] + Q + H + l
  <2> HIDE DEF Q, Q1, l
  <2> QED
    BY <1>1, <1>3, <1>4, <1>5, <1>6
<1>9. Cost(inserting'[n]) + Cost(enqueuing'[n]) + Cost(requested[n]) + Cost(replayed[n]) + l
        <= Cost(inserting[n]) + Cost(enqueuing[n]) + Cost(requested'[n]) + Cost(replayed'[n])
  <2> HIDE DEF l
  <2> QED
    BY <1>1, <1>5, <1>6, <1>7
<1> HIDE DEF l
<1> QED
  BY <1>5, <1>8, <1>9, LimitMoves

LEMMA LimitKept ==
  ASSUME TypeOK, TypeOK', TriesOK, [Next]_vars, NEW n \in Notices, Limit(n)
  PROVE  Limit(n)'
<1>1. CASE LockExpires \/ UNCHANGED vars
  <2>1. UNCHANGED <<rejected, queue, at, raw, inserting, enqueuing, requested, replayed>>
    BY <1>1 DEF LockExpires, vars, lists, history, calls, workers
  <2> QED
    BY <2>1 DEF Limit, QueuedAttempts, HeldAttempts, Holding, NextCount
<1> QED
  BY <1>1, CallKeepsLimit, WorkerKeepsLimit, RecoverKeepsLimit DEF Next

LEMMA RetryLimitStart ==
  ASSUME Init
  PROVE  TriesOK /\ \A n \in Notices : Limit(n)
<1>1. TriesOK
  BY DEF Init, TriesOK
<1>2. ASSUME NEW n \in Notices
      PROVE  Limit(n)
  <2>1. QueuedAttempts(queue, n) = {} /\ HeldAttempts(n) = {}
    BY DEF Init, QueuedAttempts, HeldAttempts, Holding
  <2>2. Cardinality(QueuedAttempts(queue, n)) = 0 /\ Cardinality(HeldAttempts(n)) = 0
    BY <2>1, FS_EmptySet
  <2>3. /\ rejected[n] = 0 /\ inserting[n] = 0 /\ enqueuing[n] = 0
        /\ requested[n] = 0 /\ replayed[n] = 0
    BY DEF Init, None
  <2>4. Cost(0) = 0
    BY CostSteps
  <2> QED
    BY <2>2, <2>3, <2>4 DEF Limit
<1> QED
  BY <1>1, <1>2

LEMMA LimitFollows ==
  ASSUME TypeOK, TriesOK, \A n \in Notices : Limit(n)
  PROVE  RetryLimitKept
<1>1. ASSUME NEW i \in DOMAIN dead
      PROVE  dead[i].retryCount = MaxCount + 1 /\ rejected[dead[i].notice] > MaxCount
  <2>1. dead[i] \in TriedOut
    BY DEF TriesOK
  <2>2. dead[i].notice \in Notices /\ rejected[dead[i].notice] \in Nat
    BY <2>1 DEF TriedOut, Payload, TypeOK, Counts
  <2> QED
    BY <2>1, <2>2, MaxCountAssumption DEF TriedOut
<1>2. ASSUME NEW n \in Notices
      PROVE  rejected[n] <= (MaxCount + 1) * (requested[n] + replayed[n])
  <2>1. LimitTypes(n)
    BY LimitTyped
  <2>2. rejected[n] <= Cost(requested[n]) + Cost(replayed[n])
    BY <2>1 DEF Limit, LimitTypes
  <2>3. Cost(requested[n]) + Cost(replayed[n]) = Cost(requested[n] + replayed[n])
    <3>1. \A k, x, y \in Nat : k * x + k * y = k * (x + y)
      OBVIOUS
    <3>2. MaxCount + 1 \in Nat /\ requested[n] \in Nat /\ replayed[n] \in Nat
      BY MaxCountAssumption DEF TypeOK, Counts
    <3> QED
      BY <3>1, <3>2 DEF Cost
  <2> QED
    BY <2>2, <2>3 DEF Cost
<1> QED
  BY <1>1, <1>2 DEF RetryLimitKept

\* A message is dead only after MaxCount + 1 failed inserts, and says so; and
\* no notification is tried more than MaxCount + 1 times for each time that it
\* entered the queue (ProcessOneNotificationRetry).
THEOREM RetryLimit == Spec => []RetryLimitKept
<1> DEFINE IInv == TriesOK /\ \A n \in Notices : Limit(n)
<1>1. Init => IInv
  BY RetryLimitStart
<1>2. TypeOK /\ TypeOK' /\ IInv /\ [Next]_vars => IInv'
  BY TriesKept, LimitKept
<1>3. TypeOK /\ IInv => RetryLimitKept
  BY LimitFollows
<1> QED
  BY <1>1, <1>2, <1>3, RetryTypeCorrect, PTL DEF Spec

-----------------------------------------------------------------------------
(* The workers implement the lease.                                         *)

\* Whatever the queue does, its workers use the key of their lock and their
\* Lock values as the lease of DistLock prescribes: TryLock, a lost reply, a
\* busy key, Unlock with the token, a death, the TTL, and nothing else.
THEOREM RetryImplementsLock == Spec => Lk!Spec
<1>1. Init => Lk!Init
  BY DEF Init
<1>2. [Next]_vars => [Lk!Next]_(Lk!vars)
  <2> USE DEF Lk!vars, lockVars
  <2>1. ASSUME NEW n \in Notices, CallStep(n)
        PROVE  UNCHANGED Lk!vars
    BY <2>1 DEF CallStep, Call, InsertOK, InsertRejected, InsertReplyLost, Announce, Enqueue,
                CallFails
  <2>2. ASSUME NEW w \in Workers, WorkerStep(w) \/ WorkerFault(w)
        PROVE  [Lk!Next]_(Lk!vars)
    <3>1. \/ UNCHANGED Lk!vars
          \/ Lk!TryLock(w) \/ Lk!TryLockBusy(w) \/ Lk!TryLockReplyLost(w)
          \/ Lk!Unlock(w) \/ Lk!Abandon(w)
      BY <2>2 DEF WorkerStep, WorkerFault, TryLock, SkipTick, TryLockReplyLost, Dequeue,
         DequeueEmpty, CreateOK, CreateRejected, CreateReplyLost, AckDone, AnnounceRetried,
         AckFailed, Requeue, Unlock, ReturnError, Crash
    <3> QED
      BY <3>1 DEF Lk!Next
  <2>3. ASSUME LockExpires
        PROVE  Lk!Next
    BY <2>3 DEF LockExpires, Lk!Next
  <2>4. CASE Recover
    BY <2>4 DEF Recover
  <2>5. CASE UNCHANGED vars
    BY <2>5 DEF vars
  <2> QED
    BY <2>1, <2>2, <2>3, <2>4, <2>5 DEF Next
<1> QED
  BY <1>1, <1>2, PTL DEF Spec, Lk!Spec

=============================================================================
