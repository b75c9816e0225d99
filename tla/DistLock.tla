------------------------------ MODULE DistLock ------------------------------
(***************************************************************************)
(* The Redis lease of internal/logic/lock: one Redis key, the clients      *)
(* (goroutines of any instance) that try to take it, and the *Lock value   *)
(* each of them received.                                                  *)
(*                                                                         *)
(* Redis runs SET NX EX and the unlock script one at a time, so each is    *)
(* one action.  Between two of them a client may be arbitrarily slow, so   *)
(* the TTL is modelled by an expiry that may happen at any moment.         *)
(***************************************************************************)
CONSTANTS
  Clients,      \* the goroutines that use this lock key
  Tokens,       \* the values randomToken can draw
  NoToken       \* "the key does not exist" / "lock == nil"

\* A token drawn by randomToken is never the marker for "no token".
ASSUME TokenAssumption == NoToken \notin Tokens

VARIABLES
  key,          \* what GET of the lock's key would answer
  lock          \* lock[c] is the Token of the *Lock that c holds

vars == <<key, lock>>

TypeOK ==
  /\ key \in Tokens \cup {NoToken}
  /\ lock \in [Clients -> Tokens \cup {NoToken}]

Init ==
  /\ key = NoToken
  /\ lock = [c \in Clients |-> NoToken]

\* A draw that may repeat a token somebody still holds (math/rand with the
\* same seed in every instance).
RepeatableTokens == Tokens

\* 16 bytes of crypto/rand: the token differs from every token still around.
\* One that is neither stored nor held any more cannot be told from a new one.
RandomTokens == Tokens \ ({key} \cup {lock[c] : c \in Clients})

\* SET without the NX option.
SetAlways(t) == key' = t

\* SET key token NX EX ttl, for a client that has no lock.
SetNX(t) == key = NoToken /\ key' = t

\* TryLock answers (lock, true, nil).
TryLock(c) ==
  /\ lock[c] = NoToken
  /\ \E t \in RandomTokens :
       /\ SetNX(t)
       /\ lock' = [lock EXCEPT ![c] = t]

\* TryLock answers an error although the SET took effect: the reply was lost.
\* Nobody knows the token, only the TTL removes the key.
TryLockReplyLost(c) ==
  /\ lock[c] = NoToken
  /\ \E t \in RandomTokens : SetNX(t)
  /\ UNCHANGED lock

\* TryLock answers (nil, false, nil).
TryLockBusy(c) ==
  /\ lock[c] = NoToken
  /\ key # NoToken
  /\ UNCHANGED vars

\* DEL without the comparison the script makes.
DeleteUnchecked(token) == key' = NoToken

\* unlockScript: delete the key only while it still stores this token.
UnlockWithToken(token) == key' = IF key = token THEN NoToken ELSE key

\* Unlock(lock): the deferred call runs the script and forgets the lock.
Unlock(c) ==
  /\ lock[c] # NoToken
  /\ UnlockWithToken(lock[c])
  /\ lock' = [lock EXCEPT ![c] = NoToken]

\* The client is gone without its script having run: the process died, or
\* Redis answered an error, which every caller of Unlock only logs.
Abandon(c) ==
  /\ lock[c] # NoToken
  /\ lock' = [lock EXCEPT ![c] = NoToken]
  /\ UNCHANGED key

\* SET without EX: a key never expires.
NoTTL == FALSE

\* Every key was written by the SET of TryLock, whose EX gives it a TTL.
HasTTL == key # NoToken

\* Redis drops the key when its TTL has passed, whoever still believes in it.
Expire ==
  /\ HasTTL
  /\ key' = NoToken
  /\ UNCHANGED lock

Next ==
  \/ \E c \in Clients :
       \/ TryLock(c)
       \/ TryLockReplyLost(c)
       \/ TryLockBusy(c)
       \/ Unlock(c)
       \/ Abandon(c)
  \/ Expire

Spec == Init /\ [][Next]_vars

-----------------------------------------------------------------------------
Holds(c) == lock[c] # NoToken /\ lock[c] = key

\* A lease has one owner: two clients never hold the token that Redis stores,
\* and two Lock values are never interchangeable (lock.go randomToken, SET NX).
OneOwner ==
  \A c, d \in Clients :
    lock[c] # NoToken /\ lock[c] = lock[d] => c = d

\* The hazard of DEL by key: a client whose lease ran out releases late and
\* removes the lease of its successor.  A lease ends only by its own TTL or
\* by the client that holds its token (lock.go unlockScript), and it is never
\* overwritten by another client's TryLock.
LeaseEndsByOwnerOrTTL ==
  [][ key # NoToken /\ key' # key =>
        \/ key' = NoToken /\ lock' = lock
        \/ \E c \in Clients : Holds(c) /\ lock'[c] = NoToken ]_vars
=============================================================================
