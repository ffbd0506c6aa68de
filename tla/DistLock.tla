------------------------------ MODULE DistLock ------------------------------
(***************************************************************************)
(* DistLock::acquireLock / releaseLock (Common/src/dist_lock.cc) as called *)
(* through RedisMgr (Common/src/redis_mgr.cc:580-605), with time.          *)
(*                                                                         *)
(* Tick is the passing of one unit of time, at the callers and in Redis.   *)
(* A caller may be anywhere in acquireLock, or past it ("in": the code     *)
(* between acquireLock and releaseLock), when time passes, when Redis      *)
(* fails to answer, or when its process dies.                              *)
(***************************************************************************)
EXTENDS Naturals, FiniteSets

CONSTANTS Callers, Keys, Ids, NoId,
          LockTimeout,     \* LOCK_TIME_OUT, the key's time to live
          AcquireTimeout   \* ACQUIRE_TIME_OUT, how long acquireLock retries

ASSUME NoIdAssumption == NoId \notin Ids
ASSUME TimeAssumption == /\ LockTimeout \in Nat \ {0}
                         /\ AcquireTimeout \in Nat

VARIABLES lock,   \* lock[k]: value of the Redis key, NoId when there is none
          ttl,    \* ttl[k]: its remaining time to live
          pc,     \* where each caller is
          key,    \* key[c]: lockName of c's call
          id,     \* id[c]: the identifier c generated; NoId once it returned ""
          left,   \* left[c]: time until endTime
          lease   \* history: what remains of LockTimeout since c's SET took effect

vars == <<lock, ttl, pc, key, id, left, lease>>

Init == /\ lock = [k \in Keys |-> NoId]
        /\ ttl = [k \in Keys |-> 0]
        /\ pc = [c \in Callers |-> "out"]
        /\ key \in [Callers -> Keys]
        /\ id = [c \in Callers |-> NoId]
        /\ left = [c \in Callers |-> 0]
        /\ lease = [c \in Callers |-> 0]

Fresh == {i \in Ids : /\ \A k \in Keys : lock[k] # i
                      /\ \A c \in Callers : id[c] # i}

-----------------------------------------------------------------------------
\* acquireLock is called: a new UUID, endTime = now + acquireTimeout.
Call(c, k) ==
  /\ pc[c] = "out"
  /\ \E i \in Fresh : id' = [id EXCEPT ![c] = i]
  /\ key' = [key EXCEPT ![c] = k]
  /\ left' = [left EXCEPT ![c] = AcquireTimeout]
  /\ pc' = [pc EXCEPT ![c] = "check"]
  /\ UNCHANGED <<lock, ttl, lease>>

\* RedisMgr::acquireLock without a connection returns "" at once.
CallNoConnection(c, k) ==
  /\ pc[c] = "out"
  /\ key' = [key EXCEPT ![c] = k]
  /\ pc' = [pc EXCEPT ![c] = "in"]
  /\ UNCHANGED <<lock, ttl, id, left, lease>>

\* while (now < endTime): time may pass between this test and the SET (the
\* mutated form retries for ever).
TimeLeftAlways(c) ==
  /\ pc[c] = "check"
  /\ pc' = [pc EXCEPT ![c] = "set"]
  /\ UNCHANGED <<lock, ttl, key, id, left, lease>>

TimeLeft(c) ==
  /\ pc[c] = "check"
  /\ left[c] > 0
  /\ pc' = [pc EXCEPT ![c] = "set"]
  /\ UNCHANGED <<lock, ttl, key, id, left, lease>>

\* The loop is over: return "".
GiveUp(c) ==
  /\ pc[c] \in {"check", "broken"}
  /\ left[c] = 0
  /\ id' = [id EXCEPT ![c] = NoId]
  /\ pc' = [pc EXCEPT ![c] = "in"]
  /\ UNCHANGED <<lock, ttl, key, left, lease>>

\* The effect of SET lockKey identifier NX EX lockTimeout on a free key (the
\* mutated form has no NX and overwrites whatever the key holds).
SetKeyNoNX(c) ==
  /\ pc[c] = "set"
  /\ lock' = [lock EXCEPT ![key[c]] = id[c]]
  /\ ttl' = [ttl EXCEPT ![key[c]] = LockTimeout]

SetKey(c) ==
  /\ pc[c] = "set"
  /\ lock[key[c]] = NoId
  /\ lock' = [lock EXCEPT ![key[c]] = id[c]]
  /\ ttl' = [ttl EXCEPT ![key[c]] = LockTimeout]

\* SET answered OK: acquireLock returns the identifier.
SetOk(c) ==
  /\ SetKey(c)
  /\ pc' = [pc EXCEPT ![c] = "in"]
  /\ lease' = [lease EXCEPT ![c] = LockTimeout]
  /\ UNCHANGED <<key, id, left>>

\* The key exists: sleep 1 ms and go round.
SetBusy(c) ==
  /\ pc[c] = "set"
  /\ lock[key[c]] # NoId
  /\ pc' = [pc EXCEPT ![c] = "check"]
  /\ UNCHANGED <<lock, ttl, key, id, left, lease>>

\* redisCommand returns nullptr.  The connection is in error from here on and
\* every later SET fails too, so the loop only waits for endTime.  The command
\* may have had its effect (SetReplyLost) or not (SetNotSent).
SetReplyLost(c) ==
  /\ SetKey(c)
  /\ pc' = [pc EXCEPT ![c] = "broken"]
  /\ UNCHANGED <<key, id, left, lease>>

SetNotSent(c) ==
  /\ pc[c] = "set"
  /\ pc' = [pc EXCEPT ![c] = "broken"]
  /\ UNCHANGED <<lock, ttl, key, id, left, lease>>
-----------------------------------------------------------------------------
\* The Lua script's test: the key holds the identifier passed to it; an empty
\* identifier equals no stored value (the mutated form is a plain DEL).
KeyExists(c) == lock[key[c]] # NoId
HoldsKey(c) == id[c] # NoId /\ lock[key[c]] = id[c]

\* What every way out of a call has in common.
Leave(c) ==
  /\ pc' = [pc EXCEPT ![c] = "out"]
  /\ id' = [id EXCEPT ![c] = NoId]
  /\ left' = [left EXCEPT ![c] = 0]
  /\ lease' = [lease EXCEPT ![c] = 0]
  /\ UNCHANGED key

\* releaseLock runs the script.
Release(c) ==
  /\ pc[c] = "in"
  /\ IF HoldsKey(c)
       THEN /\ lock' = [lock EXCEPT ![key[c]] = NoId]
            /\ ttl' = [ttl EXCEPT ![key[c]] = 0]
       ELSE UNCHANGED <<lock, ttl>>
  /\ Leave(c)

\* releaseLock without a connection or an answer, or the death of the process
\* anywhere in the call: the key stays as it is.
Lost(c) ==
  /\ pc[c] # "out"
  /\ Leave(c)
  /\ UNCHANGED <<lock, ttl>>

\* One unit of time less on every clock of f (the mutated form runs past 0).
CountPastZero(f) == [x \in DOMAIN f |-> f[x] - 1]
CountDown(f) == [x \in DOMAIN f |-> IF f[x] = 0 THEN 0 ELSE f[x] - 1]

\* The keys after one unit of time: EX deletes a key when its time is over (the
\* mutated form is a SET without EX).
NoExpiry == lock
AfterExpiry == [k \in Keys |-> IF ttl[k] = 1 THEN NoId ELSE lock[k]]

Tick ==
  /\ \/ \E k \in Keys : ttl[k] > 0
     \/ \E c \in Callers : left[c] > 0 \/ lease[c] > 0
  /\ lock' = AfterExpiry
  /\ ttl' = CountDown(ttl)
  /\ left' = CountDown(left)
  /\ lease' = CountDown(lease)
  /\ UNCHANGED <<pc, key, id>>
-----------------------------------------------------------------------------
Acquiring(c) == TimeLeft(c) \/ GiveUp(c) \/ SetOk(c) \/ SetBusy(c)

Next == \/ \E c \in Callers, k \in Keys : Call(c, k) \/ CallNoConnection(c, k)
        \/ \E c \in Callers : \/ Acquiring(c)
                              \/ SetReplyLost(c) \/ SetNotSent(c)
                              \/ Release(c) \/ Lost(c)
        \/ Tick

Spec == Init /\ [][Next]_vars

\* Threads are scheduled and time passes.  Nothing obliges a caller to leave
\* its section, nor Redis to answer.
Fairness == /\ WF_vars(Tick)
            /\ \A c \in Callers : WF_vars(Acquiring(c))

FairSpec == Spec /\ Fairness
-----------------------------------------------------------------------------
TypeOK == /\ lock \in [Keys -> Ids \union {NoId}]
          /\ ttl \in [Keys -> 0..LockTimeout]
          /\ pc \in [Callers -> {"out", "check", "set", "broken", "in"}]
          /\ key \in [Callers -> Keys]
          /\ id \in [Callers -> Ids \union {NoId}]
          /\ left \in [Callers -> 0..AcquireTimeout]
          /\ lease \in [Callers -> 0..LockTimeout]

\* What ties keys, identifiers and leases together, and makes LeaseMutex
\* inductive: an identifier is one caller's; a key holding it is the key that
\* caller asked for, after its SET; a key has a time to live while it exists; and
\* while its lease lasts a caller's key is there, with as much time as the lease.
KeysMatchLeases ==
  /\ \A c, d \in Callers : id[c] # NoId /\ id[c] = id[d] => c = d
  /\ \A c \in Callers : /\ pc[c] = "out" => id[c] = NoId /\ lease[c] = 0
                        /\ pc[c] \in {"check", "set", "broken"} => id[c] # NoId /\ lease[c] = 0
  /\ \A c \in Callers, k \in Keys :
       id[c] # NoId /\ lock[k] = id[c] => key[c] = k /\ pc[c] \in {"broken", "in"}
  /\ \A k \in Keys : lock[k] # NoId <=> ttl[k] > 0
  /\ \A c \in Callers :
       lease[c] > 0 => /\ id[c] # NoId /\ lock[key[c]] = id[c]
                       /\ ttl[key[c]] = lease[c]

\* The exclusion there is: of callers that were given an identifier, at most
\* one is still within LockTimeout of its SET.  (LoginHandler and the LOGIN_COUNT
\* operations go on without one, and nobody renews a lease: they may overlap.)
LeaseMutex ==
  \A c, d \in Callers :
    /\ pc[c] = "in" /\ lease[c] > 0
    /\ pc[d] = "in" /\ lease[d] > 0
    /\ key[c] = key[d]
    => c = d

\* The value of k changed in this step, if it did, because its time to live was
\* over or because the caller that was given this value released it.
TakenRightly(k) ==
  lock[k] # NoId /\ lock'[k] # lock[k]
  => \/ ttl[k] = 1 /\ lock'[k] = NoId
     \/ \E c \in Callers : /\ pc[c] = "in" /\ pc'[c] = "out"
                           /\ key[c] = k /\ id[c] = lock[k]

\* Nobody takes another's lock away (README.md:53, "only the holder releases").
OnlyHolderReleases == [][\A k \in Keys : TakenRightly(k)]_vars

\* No key is held forever, whatever becomes of its holder (the reason for EX).
NoOrphanLock ==
  \A k \in Keys, i \in Ids : lock[k] = i ~> lock[k] # i

\* acquireLock returns, with or without the lock, however contended the key.
AcquireReturns ==
  \A c \in Callers : pc[c] \in {"check", "set", "broken"} ~> pc[c] \in {"in", "out"}
-----------------------------------------------------------------------------
\* The abstract lock service is what remains when time is forgotten.
\* A caller has an identifier once acquireLock has returned it.
Given == [c \in Callers |-> IF pc[c] = "in" THEN id[c] ELSE NoId]

Service == INSTANCE LockService WITH ident <- Given

\* Every step of the implementation is a step of the service or none.
ImplementsService == Service!Spec
=============================================================================
