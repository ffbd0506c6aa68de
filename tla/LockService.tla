---------------------------- MODULE LockService ----------------------------
(***************************************************************************)
(* What the distributed lock promises its callers, without time: a key is  *)
(* free or names the one acquisition that took it; an acquisition ends     *)
(* with the identifier it wrote or empty-handed; a release removes the key *)
(* only if it still holds the caller's identifier; a key may expire.       *)
(* Common/src/dist_lock.cc behind RedisMgr::acquireLock / releaseLock.     *)
(***************************************************************************)
EXTENDS Naturals, Functions

CONSTANTS Callers,  \* threads, of any process, that call acquireLock
          Keys,     \* lock names
          Ids,      \* what generateUUID() can return
          NoId      \* the empty identifier "", and an absent key

VARIABLES lock,     \* lock[k]: the value of the Redis key "lock:" + k
          ident     \* ident[c]: the identifier c holds until it calls releaseLock

vars == <<lock, ident>>

TypeOK == /\ lock \in [Keys -> Ids \union {NoId}]
          /\ ident \in [Callers -> Ids \union {NoId}]

Init == /\ lock = [k \in Keys |-> NoId]
        /\ ident = [c \in Callers |-> NoId]

\* A UUID is new: no key and no caller has it.
Fresh == {i \in Ids : /\ \A k \in Keys : lock[k] # i
                      /\ \A c \in Callers : ident[c] # i}

\* acquireLock wrote the key and returns the identifier.
Acquire(c, k) ==
  /\ ident[c] = NoId
  /\ lock[k] = NoId
  /\ \E i \in Fresh : /\ lock' = [lock EXCEPT ![k] = i]
                      /\ ident' = [ident EXCEPT ![c] = i]

\* The key was written but the caller will never learn of it: it is an orphan.
AcquireLost(k) ==
  /\ lock[k] = NoId
  /\ \E i \in Fresh : lock' = [lock EXCEPT ![k] = i]
  /\ UNCHANGED ident

\* releaseLock, compare-and-delete.
Release(c, k) ==
  /\ lock' = [lock EXCEPT ![k] = IF ident[c] # NoId /\ @ = ident[c] THEN NoId ELSE @]
  /\ ident' = [ident EXCEPT ![c] = NoId]

\* The caller is gone, or its release never reached Redis.
Abandon(c) ==
  /\ ident' = [ident EXCEPT ![c] = NoId]
  /\ UNCHANGED lock

\* Time to live is over.  Several keys can expire at one moment.
Expire(K) ==
  /\ lock' = [k \in Keys |-> IF k \in K THEN NoId ELSE lock[k]]
  /\ UNCHANGED ident

Next == \/ \E c \in Callers, k \in Keys : Acquire(c, k) \/ Release(c, k)
        \/ \E k \in Keys : AcquireLost(k)
        \/ \E c \in Callers : Abandon(c)
        \/ \E K \in SUBSET Keys : Expire(K)

Spec == Init /\ [][Next]_vars
=============================================================================
