---------------------- MODULE NotificationStream_proofs ----------------------
(***************************************************************************)
(* Proofs about the notification event stream, for any workers and any     *)
(* bounds: the types, that a message which is no longer pending is stored  *)
(* and announced, and that it is stored once while nobody fails or is slow. *)
(***************************************************************************)
EXTENDS NotificationStream, FiniteSetTheorems, TLAPS

LEMMA IncType ==
  ASSUME NEW f \in [Ids -> Nat], NEW i \in Ids
  PROVE  /\ Inc(f, i) \in [Ids -> Nat]
         /\ Inc(f, i)[i] > 0
         /\ \A j \in Ids : f[j] > 0 => Inc(f, i)[j] > 0
  BY DEF Inc

\* The message a worker has in hand is the id of a message.
LEMMA MessageType ==
  ASSUME TypeOK, NEW w \in Workers, at[w] \notin {"tick", "claim"}
  PROVE  message[w] \in Ids /\ message[w] \in 1..delivered
  BY EventsAssumption DEF TypeOK, Ids, NoId

\* The next message that the group delivers.
LEMMA DeliverType ==
  ASSUME TypeOK, Deliver
  PROVE  /\ delivered' = delivered + 1 /\ delivered' \in 0..published
         /\ delivered' \in Ids
         /\ pending' \subseteq 1..delivered' /\ idle' \subseteq pending'
         /\ \A w \in Workers : message[w] \in 0..delivered'
  BY EventsAssumption DEF TypeOK, Deliver, Ids

LEMMA ClaimType ==
  ASSUME TypeOK, NEW i \in pending, Claim(i)
  PROVE  /\ i \in 1..delivered /\ i \in Ids
         /\ idle' \subseteq pending /\ claims' \in [Ids -> Nat]
<1>1. i \in 1..delivered /\ idle' \subseteq pending
  BY DEF TypeOK, Claim
<1>2. published \in 0..MaxEvents /\ delivered \in 0..published
  BY DEF TypeOK
<1>3. i \in Ids
  BY <1>1, <1>2, EventsAssumption DEF Ids
<1>4. claims' \in [Ids -> Nat]
  BY <1>3, IncType DEF TypeOK, Claim
<1> QED
  BY <1>1, <1>3, <1>4

LEMMA WorkerKeepsTypes ==
  ASSUME TypeOK, NEW w \in Workers, WorkerStep(w) \/ WorkerFault(w)
  PROVE  TypeOK'
<1> USE EventsAssumption DEF Goto, NoId, group, workers, tables, history
<1>1. CASE ReadOne(w)
  <2>1. Deliver /\ Start(w, delivered') /\ UNCHANGED <<tables, history>>
    BY <1>1 DEF ReadOne
  <2>2. delivered' # 0 /\ delivered' \in 0..delivered'
    BY <2>1, DeliverType DEF TypeOK
  <2>3. /\ message' \in [Workers -> 0..delivered']
        /\ at' \in [Workers -> {"tick", "claim", "insert", "sadd", "xack"}]
        /\ \A v \in Workers : message'[v] = NoId <=> at'[v] \in {"tick", "claim"}
    BY <2>1, <2>2, DeliverType DEF TypeOK, Start
  <2> QED
    BY <2>1, <2>3, DeliverType DEF TypeOK, Deliver
<1>2. CASE ReadNone(w) \/ ClaimNone(w)
  BY <1>2 DEF TypeOK, ReadNone, ClaimNone
<1>3. CASE ClaimOne(w)
  <2>1. PICK i \in pending : Claim(i) /\ Start(w, i)
    BY <1>3 DEF ClaimOne
  <2>2. i # 0 /\ i \in 0..delivered
    BY <2>1, ClaimType DEF TypeOK
  <2>3. /\ message' \in [Workers -> 0..delivered]
        /\ at' \in [Workers -> {"tick", "claim", "insert", "sadd", "xack"}]
        /\ \A v \in Workers : message'[v] = NoId <=> at'[v] \in {"tick", "claim"}
    BY <2>1, <2>2 DEF TypeOK, Start
  <2> QED
    BY <1>3, <2>1, <2>3, ClaimType DEF TypeOK, ClaimOne, Claim
<1>4. CASE InsertOK(w)
  BY <1>4, MessageType, IncType DEF TypeOK, InsertOK
<1>5. CASE InsertRejected(w)
  BY <1>5 DEF TypeOK, InsertRejected, Return
<1>6. CASE Announce(w)
  BY <1>6, MessageType, IncType DEF TypeOK, Announce
<1>7. CASE Ack(w)
  <2>1. pending' \subseteq 1..delivered /\ idle' \subseteq pending'
    BY <1>7 DEF TypeOK, Ack
  <2> QED
    BY <1>7, <2>1 DEF TypeOK, Ack, Return
<1>8. CASE ReplyLost(w)
  <2>1. CASE at[w] = "tick" /\ Deliver /\ UNCHANGED <<at, claims>>
    BY <1>8, <2>1, DeliverType DEF TypeOK, ReplyLost, Fault, Deliver
  <2>2. CASE at[w] = "claim" /\ (\E i \in pending : Claim(i)) /\ Goto(w, "tick")
    <3>1. PICK i \in pending : Claim(i)
      BY <2>2
    <3> QED
      BY <1>8, <2>2, <3>1, ClaimType DEF TypeOK, ReplyLost, Fault, Claim
  <2> QED
    BY <1>8, <2>1, <2>2 DEF ReplyLost
<1>9. CASE InsertReplyLost(w)
  BY <1>9, MessageType, IncType DEF TypeOK, InsertReplyLost, Return, Fault
<1>10. CASE Fails(w)
  BY <1>10 DEF TypeOK, Fails, Return, Fault
<1> QED
  BY <1>1, <1>2, <1>3, <1>4, <1>5, <1>6, <1>7, <1>8, <1>9, <1>10
     DEF WorkerStep, WorkerFault

\* Pending entries were delivered, idle ones are pending, and a worker has a
\* message exactly between its reading and its next tick (stream.go).
THEOREM StreamTypeCorrect == Spec => []TypeOK
<1>1. Init => TypeOK
  BY EventsAssumption DEF Init, TypeOK, None, NoId, Ids
<1>2. TypeOK /\ [Next]_vars => TypeOK'
  <2> SUFFICES ASSUME TypeOK, [Next]_vars
               PROVE  TypeOK'
    OBVIOUS
  <2> USE EventsAssumption DEF NoId, group, workers, tables, history
  <2>1. CASE Publish
    BY <2>1 DEF TypeOK, Publish
  <2>2. CASE \E w \in Workers : WorkerStep(w) \/ WorkerFault(w)
    BY <2>2, WorkerKeepsTypes
  <2>3. CASE \E i \in Ids : BecomesIdle(i)
    BY <2>3 DEF TypeOK, BecomesIdle
  <2>4. CASE UNCHANGED vars
    BY <2>4 DEF TypeOK, vars
  <2> QED
    BY <2>1, <2>2, <2>3, <2>4 DEF Next
<1> QED
  BY <1>1, <1>2, PTL DEF Spec
-----------------------------------------------------------------------------
\* What a worker has done for its message at each stage.
WorkDone ==
  \A w \in Workers :
    /\ at[w] \in {"sadd", "xack"} => rows[message[w]] > 0
    /\ at[w] = "xack" => unread[message[w]] > 0

Stored == WorkDone /\ AckedIsStored

\* A step that neither removes a row or an id, nor acknowledges anything.
LEMMA NothingUndone ==
  ASSUME TypeOK, Stored,
         delivered' = delivered, pending' = pending,
         \A i \in Ids : /\ rows[i] > 0 => rows'[i] > 0
                        /\ unread[i] > 0 => unread'[i] > 0
  PROVE  AckedIsStored'
  BY EventsAssumption DEF TypeOK, Stored, AckedIsStored, Acked, Ids

LEMMA WorkerKeepsStored ==
  ASSUME TypeOK, Stored, NEW w \in Workers, WorkerStep(w) \/ WorkerFault(w)
  PROVE  Stored'
<1> USE DEF Goto, group, tables
<1>1. CASE ReadOne(w)
  BY <1>1, EventsAssumption
     DEF TypeOK, Stored, WorkDone, AckedIsStored, Acked, ReadOne, Start, Deliver
<1>2. CASE ReadNone(w) \/ ClaimNone(w) \/ InsertRejected(w) \/ Fails(w)
  BY <1>2 DEF TypeOK, Stored, WorkDone, AckedIsStored, Acked, ReadNone, ClaimNone,
              InsertRejected, Fails, Return
<1>3. CASE ClaimOne(w)
  BY <1>3 DEF TypeOK, Stored, WorkDone, AckedIsStored, Acked, ClaimOne, Claim, Start
<1>4. CASE InsertOK(w)
  <2>1. WorkDone'
    BY <1>4, MessageType, IncType DEF TypeOK, Stored, WorkDone, InsertOK
  <2>2. AckedIsStored'
    BY <1>4, MessageType, IncType, NothingUndone DEF TypeOK, InsertOK
  <2> QED
    BY <2>1, <2>2 DEF Stored
<1>5. CASE InsertReplyLost(w)
  <2>1. WorkDone'
    BY <1>5, MessageType, IncType DEF TypeOK, Stored, WorkDone, InsertReplyLost, Return
  <2>2. AckedIsStored'
    BY <1>5, MessageType, IncType, NothingUndone DEF TypeOK, InsertReplyLost
  <2> QED
    BY <2>1, <2>2 DEF Stored
<1>6. CASE Announce(w)
  <2>1. WorkDone'
    BY <1>6, MessageType, IncType DEF TypeOK, Stored, WorkDone, Announce
  <2>2. AckedIsStored'
    BY <1>6, MessageType, IncType, NothingUndone DEF TypeOK, Announce
  <2> QED
    BY <2>1, <2>2 DEF Stored
\* XACK: the one message that stops being pending is stored and announced.
<1>7. CASE Ack(w)
  BY <1>7 DEF TypeOK, Stored, WorkDone, AckedIsStored, Acked, Ack, Return
<1>8. CASE ReplyLost(w)
  BY <1>8, EventsAssumption
     DEF TypeOK, Stored, WorkDone, AckedIsStored, Acked, ReplyLost, Deliver, Claim
<1> QED
  BY <1>1, <1>2, <1>3, <1>4, <1>5, <1>6, <1>7, <1>8 DEF WorkerStep, WorkerFault

\* At least once, for any number of workers, failures and claims: what XACK took
\* off the pending list has its row and its place in the unread set (stream.go
\* processNotificationEventMessage).
THEOREM StreamLosesNothing == Spec => []AckedIsStored
<1>1. Init => Stored
  BY DEF Init, Stored, WorkDone, AckedIsStored, Acked
<1>2. TypeOK /\ Stored /\ [Next]_vars => Stored'
  <2> SUFFICES ASSUME TypeOK, Stored, [Next]_vars
               PROVE  Stored'
    OBVIOUS
  <2> USE DEF Stored, WorkDone, AckedIsStored, Acked, group, workers, tables
  <2>1. CASE Publish
    BY <2>1 DEF Publish
  <2>2. CASE \E w \in Workers : WorkerStep(w) \/ WorkerFault(w)
    BY <2>2, WorkerKeepsStored
  <2>3. CASE \E i \in Ids : BecomesIdle(i)
    BY <2>3 DEF BecomesIdle
  <2>4. CASE UNCHANGED vars
    BY <2>4 DEF vars
  <2> QED
    BY <2>1, <2>2, <2>3, <2>4 DEF Next
<1>3. Stored => AckedIsStored
  BY DEF Stored
<1> QED
  BY <1>1, <1>2, <1>3, StreamTypeCorrect, PTL DEF Spec

\* While nothing fails and nobody is slow, a message has one worker at most, and
\* is free to be claimed only without a row.
Calm == faults = 0 /\ hasty = 0
OneWorker ==
  /\ \A w, v \in Workers : message[w] = message[v] /\ message[w] # NoId => w = v
  /\ \A i \in idle : ~ InWork(i)
  /\ \A w \in Workers : at[w] = "insert" => rows[message[w]] = 0
  /\ \A i \in Ids : /\ i > delivered \/ (i \in pending /\ ~ InWork(i)) => rows[i] = 0
                    /\ rows[i] <= 1

\* Calm never begins again.
LEMMA CalmBefore ==
  ASSUME TypeOK, [Next]_vars, Calm'
  PROVE  Calm
<1>1. faults \in Nat /\ hasty \in Nat
  BY DEF TypeOK
<1>2. faults' >= faults
  BY <1>1 DEF Next, Publish, WorkerStep, WorkerFault, ReadOne, ReadNone, ClaimOne, ClaimNone,
         InsertOK, InsertRejected, Announce, Ack, ReplyLost, InsertReplyLost, Fails,
         BecomesIdle, Fault, history, vars
<1>3. hasty' >= hasty
  BY <1>1 DEF Next, Publish, WorkerStep, WorkerFault, ReadOne, ReadNone, ClaimOne, ClaimNone,
         InsertOK, InsertRejected, Announce, Ack, ReplyLost, InsertReplyLost, Fails,
         BecomesIdle, Fault, history, vars
<1> QED
  BY <1>1, <1>2, <1>3 DEF Calm

LEMMA StepKeepsOneWorker ==
  ASSUME TypeOK, OneWorker, Next, Calm, Calm'
  PROVE  OneWorker'
<1> USE EventsAssumption DEF Goto, NoId, group, workers, tables, history, InWork
<1>1. CASE Publish
  BY <1>1 DEF OneWorker, Publish
<1>2. ASSUME NEW w \in Workers, ReadOne(w)
      PROVE  OneWorker'
  <2>1. /\ delivered' = delivered + 1 /\ delivered' \in Ids /\ rows' = rows /\ idle' = idle
        /\ pending' = pending \cup {delivered'}
        /\ message' = [message EXCEPT ![w] = delivered']
        /\ at' = [at EXCEPT ![w] = "insert"]
    BY <1>2, DeliverType DEF ReadOne, Deliver, Start
  <2>2. \A v \in Workers : message[v] # delivered'
    BY <2>1 DEF TypeOK
  <2>3. delivered' \notin idle /\ rows[delivered'] = 0
    BY <2>1 DEF TypeOK, OneWorker
  <2>4. message[w] = NoId
    BY <1>2 DEF TypeOK, ReadOne
  <2> QED
    BY <2>1, <2>2, <2>3, <2>4 DEF TypeOK, OneWorker, Ids
<1>3. ASSUME NEW w \in Workers, ReadNone(w) \/ ClaimNone(w)
      PROVE  OneWorker'
  BY <1>3 DEF TypeOK, OneWorker, ReadNone, ClaimNone
<1>4. ASSUME NEW w \in Workers, ClaimOne(w)
      PROVE  OneWorker'
  <2>1. PICK i \in pending : Claim(i) /\ Start(w, i)
    BY <1>4 DEF ClaimOne
  <2>2. i \in idle /\ i \in Ids /\ i # NoId /\ rows[i] = 0
    BY <2>1, ClaimType DEF Claim, OneWorker, Ids
  <2>3. /\ message' = [message EXCEPT ![w] = i] /\ at' = [at EXCEPT ![w] = "insert"]
        /\ idle' = idle \ {i} /\ UNCHANGED <<delivered, pending, rows>>
    BY <1>4, <2>1 DEF ClaimOne, Claim, Start
  <2>4. message[w] = NoId
    BY <1>4 DEF TypeOK, ClaimOne
  <2> QED
    BY <2>2, <2>3, <2>4 DEF TypeOK, OneWorker, Ids
<1>5. ASSUME NEW w \in Workers, InsertOK(w)
      PROVE  OneWorker'
  <2>1. message[w] \in Ids /\ message[w] \in 1..delivered
    BY <1>5, MessageType DEF InsertOK
  <2>2. rows' = [rows EXCEPT ![message[w]] = 1]
    <3>1. rows[message[w]] = 0 /\ rows' = Inc(rows, message[w])
      BY <1>5 DEF InsertOK, OneWorker
    <3> QED
      BY <3>1 DEF Inc
  <2> QED
    BY <1>5, <2>1, <2>2 DEF TypeOK, OneWorker, InsertOK
<1>6. ASSUME NEW w \in Workers, InsertRejected(w)
      PROVE  OneWorker'
  BY <1>6 DEF TypeOK, OneWorker, InsertRejected, Return
<1>7. ASSUME NEW w \in Workers, Announce(w)
      PROVE  OneWorker'
  BY <1>7 DEF TypeOK, OneWorker, Announce
<1>8. ASSUME NEW w \in Workers, Ack(w)
      PROVE  OneWorker'
  <2>1. /\ pending' = pending \ {message[w]} /\ idle' = idle \ {message[w]}
        /\ message' = [message EXCEPT ![w] = NoId] /\ at' = [at EXCEPT ![w] = "tick"]
        /\ UNCHANGED <<delivered, rows>>
    BY <1>8 DEF Ack, Return
  <2>2. \A i \in Ids \ {message[w]} : InWork(i)' <=> InWork(i)
    BY <2>1 DEF TypeOK, Ids
  <2> QED
    BY <2>1, <2>2 DEF TypeOK, OneWorker, Ids
<1>9. ASSUME NEW w \in Workers, ReplyLost(w) \/ InsertReplyLost(w) \/ Fails(w)
      PROVE  OneWorker'
  BY <1>9 DEF ReplyLost, InsertReplyLost, Fails, Fault, Calm
<1>10. ASSUME NEW i \in Ids, BecomesIdle(i)
       PROVE  OneWorker'
  BY <1>10 DEF TypeOK, OneWorker, BecomesIdle, Calm
<1> QED
  BY <1>1, <1>2, <1>3, <1>4, <1>5, <1>6, <1>7, <1>8, <1>9, <1>10
     DEF Next, WorkerStep, WorkerFault

\* The workers that are about to insert a row for message i.
Inserting(i) == {w \in Workers : at[w] = "insert" /\ message[w] = i}
Deliveries(i) == claims[i] + (IF i <= delivered THEN 1 ELSE 0)
Ledger(i) == rows[i] + Cardinality(Inserting(i)) <= Deliveries(i)

LEMMA InsertingType ==
  ASSUME NEW i
  PROVE  IsFiniteSet(Inserting(i)) /\ Cardinality(Inserting(i)) \in Nat
<1>1. IsFiniteSet(Inserting(i))
  BY WorkersAssumption, FS_Subset DEF Inserting
<1> QED
  BY <1>1, FS_CardinalityType

\* w begins, ends, or stays out of an insertion of i.
LEMMA InsertingMoves ==
  ASSUME NEW i, NEW w \in Workers,
         \A v \in Workers \ {w} : at'[v] = at[v] /\ message'[v] = message[v]
  PROVE  /\ Cardinality(Inserting(i)') \in Nat
         /\ Cardinality(Inserting(i)') <=
              Cardinality(Inserting(i)) + (IF w \in Inserting(i)' THEN 1 ELSE 0)
         /\ w \in Inserting(i) /\ w \notin Inserting(i)' =>
              Cardinality(Inserting(i)') = Cardinality(Inserting(i)) - 1
<1> DEFINE H == Inserting(i)
           K == Inserting(i)'
<1>1. H \subseteq Workers /\ K \subseteq Workers /\ H \ {w} = K \ {w}
  BY DEF Inserting
<1> HIDE DEF H, K
<1>2. IsFiniteSet(H) /\ IsFiniteSet(K)
  BY <1>1, WorkersAssumption, FS_Subset
<1>3. Cardinality(H) \in Nat /\ Cardinality(K) \in Nat
  BY <1>2, FS_CardinalityType
<1>4. /\ Cardinality(H \ {w}) = IF w \in H THEN Cardinality(H) - 1 ELSE Cardinality(H)
      /\ Cardinality(K \ {w}) = IF w \in K THEN Cardinality(K) - 1 ELSE Cardinality(K)
  BY <1>2, FS_RemoveElement
<1>5. Cardinality(H \ {w}) = Cardinality(K \ {w})
  BY <1>1
<1>6. /\ Cardinality(K) <= Cardinality(H) + (IF w \in K THEN 1 ELSE 0)
      /\ w \in H /\ w \notin K => Cardinality(K) = Cardinality(H) - 1
  BY <1>3, <1>4, <1>5
<1> QED
  BY <1>3, <1>6 DEF H, K

LEMMA StepKeepsLedger ==
  ASSUME TypeOK, Next, NEW i \in Ids, Ledger(i)
  PROVE  Ledger(i)'
<1> USE EventsAssumption DEF group, tables, history
<1> DEFINE b == Cardinality(Inserting(i))
<1>1. /\ b \in Nat /\ rows[i] \in Nat /\ claims[i] \in Nat /\ i \in Nat
      /\ delivered \in Nat
  BY InsertingType DEF TypeOK, Ids
\* Publish and BecomesIdle.
<1>2. CASE UNCHANGED <<workers, rows, claims, delivered>>
  <2>1. Inserting(i)' = Inserting(i)
    BY <1>2 DEF Inserting, workers
  <2> QED
    BY <1>2, <2>1 DEF Ledger, Deliveries
<1>3. ASSUME NEW w \in Workers, WorkerStep(w) \/ WorkerFault(w)
      PROVE  Ledger(i)'
  <2>1. \A v \in Workers \ {w} : at'[v] = at[v] /\ message'[v] = message[v]
    BY <1>3 DEF WorkerStep, WorkerFault, ReadOne, ReadNone, ClaimOne, ClaimNone, InsertOK,
                InsertRejected, Announce, Ack, ReplyLost, InsertReplyLost, Fails, Start,
                Return, Goto, TypeOK
  <2> DEFINE c == Cardinality(Inserting(i)')
  <2>2. /\ c \in Nat /\ c <= b + (IF w \in Inserting(i)' THEN 1 ELSE 0)
        /\ w \in Inserting(i) /\ w \notin Inserting(i)' => c = b - 1
    BY <2>1, InsertingMoves
  <2>3. CASE ReadOne(w)
    <3>1. /\ delivered' = delivered + 1 /\ UNCHANGED <<rows, claims>>
          /\ w \in Inserting(i)' => i = delivered + 1
      BY <2>3, DeliverType DEF ReadOne, Deliver, Start, Goto, Inserting, TypeOK
    <3> HIDE DEF b, c
    <3>2. rows[i] + c <= claims[i] + (IF i <= delivered + 1 THEN 1 ELSE 0)
      BY <1>1, <2>2, <3>1 DEF Ledger, Deliveries, b
    <3> QED
      BY <3>1, <3>2 DEF Ledger, Deliveries, c
  <2>4. CASE ClaimOne(w)
    <3>1. PICK j \in pending : Claim(j) /\ Start(w, j)
      BY <2>4 DEF ClaimOne
    <3>2. /\ claims' = Inc(claims, j) /\ UNCHANGED <<rows, delivered>>
          /\ w \in Inserting(i)' => i = j
      BY <2>4, <3>1 DEF ClaimOne, Claim, Start, Goto, Inserting, TypeOK
    <3>3. claims'[i] = claims[i] + (IF i = j THEN 1 ELSE 0)
      BY <3>2 DEF Inc, TypeOK
    <3> HIDE DEF b, c
    <3>4. rows[i] + c <= claims'[i] + (IF i <= delivered THEN 1 ELSE 0)
      BY <1>1, <2>2, <3>2, <3>3 DEF Ledger, Deliveries, b
    <3> QED
      BY <3>2, <3>4 DEF Ledger, Deliveries, c
  <2>5. CASE InsertOK(w) \/ InsertReplyLost(w)
    <3>1. /\ UNCHANGED <<claims, delivered>> /\ at'[w] # "insert"
          /\ rows' = Inc(rows, message[w]) /\ at[w] = "insert"
      BY <2>5 DEF InsertOK, InsertReplyLost, Return, Goto, TypeOK
    <3>2. w \notin Inserting(i)' /\ (w \in Inserting(i) <=> i = message[w])
      BY <3>1 DEF Inserting
    <3>3. rows'[i] = rows[i] + (IF i = message[w] THEN 1 ELSE 0)
      BY <3>1 DEF Inc, TypeOK
    <3> HIDE DEF b, c
    <3>4. rows'[i] + c <= claims[i] + (IF i <= delivered THEN 1 ELSE 0)
      BY <1>1, <2>2, <3>2, <3>3 DEF Ledger, Deliveries, b
    <3> QED
      BY <3>1, <3>4 DEF Ledger, Deliveries, c
\* A step that neither stores a row nor begins to, whatever it delivers.
  <2>6. CASE \/ ReadNone(w) \/ ClaimNone(w) \/ InsertRejected(w) \/ Announce(w) \/ Ack(w)
             \/ Fails(w) \/ ReplyLost(w)
    <3>1. rows' = rows /\ w \notin Inserting(i)'
      BY <2>6 DEF ReadNone, ClaimNone, InsertRejected, Announce, Ack, Fails, ReplyLost,
                  Return, Goto, Inserting, TypeOK
    <3>2. delivered' \in Nat /\ claims'[i] \in Nat
          /\ delivered' >= delivered /\ claims'[i] >= claims[i]
      <4>1. CASE ReplyLost(w)
        BY <1>1, <4>1 DEF ReplyLost, Deliver, Claim, Inc, TypeOK
      <4>2. CASE ~ ReplyLost(w)
        BY <1>1, <2>6, <4>2 DEF ReadNone, ClaimNone, InsertRejected, Announce, Ack, Fails
      <4> QED
        BY <4>1, <4>2
    <3> HIDE DEF b, c
    <3>3. rows[i] + c <= claims'[i] + (IF i <= delivered' THEN 1 ELSE 0)
      BY <1>1, <2>2, <3>1, <3>2 DEF Ledger, Deliveries, b
    <3> QED
      BY <3>1, <3>3 DEF Ledger, Deliveries, c
  <2> QED
    BY <1>3, <2>3, <2>4, <2>5, <2>6 DEF WorkerStep, WorkerFault
<1> QED
  BY <1>2, <1>3 DEF Next, Publish, BecomesIdle

\* Only a claim can store a message again, for any number of workers and
\* failures, and nothing is stored twice while nothing fails and nobody is
\* slower than the claim's 30 seconds (stream.go).
THEOREM StreamStoresOnce == Spec => []StoredOnce
<1> DEFINE Inv == (\A i \in Ids : Ledger(i)) /\ (Calm => OneWorker)
<1>1. Init => Inv
  <2> SUFFICES ASSUME Init
               PROVE  Inv
    OBVIOUS
  <2>1. ASSUME NEW i \in Ids
        PROVE  Ledger(i)
    <3>1. Inserting(i) = {}
      BY DEF Init, Inserting
    <3>2. Cardinality(Inserting(i)) = 0
      BY <3>1, FS_EmptySet
    <3>3. rows[i] = 0 /\ claims[i] = 0 /\ delivered = 0 /\ i > 0
      BY EventsAssumption DEF Init, None, Ids
    <3> QED
      BY <3>2, <3>3 DEF Ledger, Deliveries
  <2>2. OneWorker
    BY EventsAssumption DEF Init, OneWorker, InWork, NoId, None, Ids
  <2> QED
    BY <2>1, <2>2
<1>2. TypeOK /\ Inv /\ [Next]_vars => Inv'
  <2> SUFFICES ASSUME TypeOK, Inv, [Next]_vars
               PROVE  Inv'
    OBVIOUS
  <2>1. CASE UNCHANGED vars
    <3>1. \A i \in Ids : Inserting(i)' = Inserting(i)
      BY <2>1 DEF vars, workers, Inserting
    <3> QED
      BY <2>1, <3>1 DEF Ledger, Deliveries, Calm, OneWorker, InWork, vars, group, workers,
                        tables, history
  <2>2. CASE Next
    BY <2>2, StepKeepsLedger, StepKeepsOneWorker, CalmBefore
  <2> QED
    BY <2>1, <2>2
<1>3. TypeOK /\ Inv => StoredOnce
  <2> SUFFICES ASSUME TypeOK, Inv, NEW i \in Ids
               PROVE  rows[i] <= 1 + claims[i] /\ (Calm => rows[i] <= 1)
    BY DEF StoredOnce, Calm
  <2>1. rows[i] \in Nat /\ claims[i] \in Nat /\ Cardinality(Inserting(i)) \in Nat
    BY InsertingType DEF TypeOK
  <2>2. rows[i] <= 1 + claims[i]
    BY <2>1 DEF Ledger, Deliveries
  <2> QED
    BY <2>2 DEF OneWorker
<1> QED
  BY <1>1, <1>2, <1>3, StreamTypeCorrect, PTL DEF Spec
=============================================================================
