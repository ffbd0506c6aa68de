--------------------------- MODULE DistLockProofs ---------------------------
(***************************************************************************)
(* Theorems of DistLock, for every set of callers, keys and identifiers    *)
(* and every pair of timeouts.                                             *)
(***************************************************************************)
EXTENDS DistLock, TLAPS

USE NoIdAssumption, TimeAssumption

-----------------------------------------------------------------------------
\* Initially nothing is locked and nobody calls.
LEMMA InitTyped == Init => TypeOK
  BY DEF Init, TypeOK

\* Every step keeps the types, in particular the clocks in their ranges.
LEMMA NextTyped == TypeOK /\ [Next]_vars => TypeOK'
<1> SUFFICES ASSUME TypeOK, [Next]_vars
             PROVE  TypeOK'
  OBVIOUS
<1> USE DEF TypeOK
<1>1. ASSUME NEW c \in Callers, NEW k \in Keys, Call(c, k)
      PROVE  TypeOK'
  BY <1>1 DEF Call, Fresh
<1>2. ASSUME NEW c \in Callers, NEW k \in Keys, CallNoConnection(c, k)
      PROVE  TypeOK'
  BY <1>2 DEF CallNoConnection
<1>3. ASSUME NEW c \in Callers, Acquiring(c)
      PROVE  TypeOK'
  BY <1>3 DEF Acquiring, TimeLeft, GiveUp, SetOk, SetBusy, SetKey
<1>4. ASSUME NEW c \in Callers, SetReplyLost(c) \/ SetNotSent(c)
      PROVE  TypeOK'
  BY <1>4 DEF SetReplyLost, SetNotSent, SetKey
<1>5. ASSUME NEW c \in Callers, Release(c) \/ Lost(c)
      PROVE  TypeOK'
  BY <1>5 DEF Release, Lost, Leave
<1>6. CASE Tick
  BY <1>6 DEF Tick, CountDown, AfterExpiry
<1>7. CASE UNCHANGED vars
  BY <1>7 DEF vars
<1> QED
  BY <1>1, <1>2, <1>3, <1>4, <1>5, <1>6, <1>7 DEF Next

\* TypeOK is an invariant of the distributed lock.
THEOREM TypeCorrect == Spec => []TypeOK
  BY InitTyped, NextTyped, PTL DEF Spec

-----------------------------------------------------------------------------
\* No lease runs before the first call.
LEMMA InitMatches == Init => KeysMatchLeases
  BY DEF Init, KeysMatchLeases

\* KeysMatchLeases is inductive relative to the types.
LEMMA NextMatches == TypeOK /\ KeysMatchLeases /\ [Next]_vars => KeysMatchLeases'
<1> SUFFICES ASSUME TypeOK, KeysMatchLeases, [Next]_vars
             PROVE  KeysMatchLeases'
  OBVIOUS
<1> USE DEF TypeOK, KeysMatchLeases
<1>1. ASSUME NEW c \in Callers, NEW k \in Keys, Call(c, k)
      PROVE  KeysMatchLeases'
  BY <1>1 DEF Call, Fresh
<1>2. ASSUME NEW c \in Callers, NEW k \in Keys, CallNoConnection(c, k)
      PROVE  KeysMatchLeases'
  BY <1>2 DEF CallNoConnection
<1>3. ASSUME NEW c \in Callers, TimeLeft(c) \/ SetBusy(c) \/ SetNotSent(c)
      PROVE  KeysMatchLeases'
  BY <1>3 DEF TimeLeft, SetBusy, SetNotSent
<1>4. ASSUME NEW c \in Callers, GiveUp(c)
      PROVE  KeysMatchLeases'
  BY <1>4 DEF GiveUp
<1>5. ASSUME NEW c \in Callers, SetOk(c)
      PROVE  KeysMatchLeases'
  BY <1>5 DEF SetOk, SetKey
<1>6. ASSUME NEW c \in Callers, SetReplyLost(c)
      PROVE  KeysMatchLeases'
  BY <1>6 DEF SetReplyLost, SetKey
<1>7. ASSUME NEW c \in Callers, Release(c)
      PROVE  KeysMatchLeases'
  BY <1>7 DEF Release, Leave, HoldsKey
<1>8. ASSUME NEW c \in Callers, Lost(c)
      PROVE  KeysMatchLeases'
  BY <1>8 DEF Lost, Leave
<1>9. CASE Tick
  BY <1>9 DEF Tick, CountDown, AfterExpiry
<1>10. CASE UNCHANGED vars
  BY <1>10 DEF vars
<1> QED
  BY <1>1, <1>2, <1>3, <1>4, <1>5, <1>6, <1>7, <1>8, <1>9, <1>10 DEF Next, Acquiring

\* While its lease lasts, a caller's key holds its identifier, for exactly as
\* long as the lease.
THEOREM KeysMatch == Spec => []KeysMatchLeases
<1>1. Init => TypeOK /\ KeysMatchLeases
  BY InitTyped, InitMatches
<1>2. TypeOK /\ KeysMatchLeases /\ [Next]_vars => (TypeOK /\ KeysMatchLeases)'
  BY NextTyped, NextMatches
<1> QED
  BY <1>1, <1>2, PTL DEF Spec

\* The lease gives exclusion: callers on one key that still have a lease are the
\* same caller.
THEOREM LeaseExclusion == Spec => []LeaseMutex
<1>1. TypeOK /\ KeysMatchLeases => LeaseMutex
  BY DEF TypeOK, KeysMatchLeases, LeaseMutex
<1> QED
  BY <1>1, TypeCorrect, KeysMatch, PTL

-----------------------------------------------------------------------------
\* A value leaves its key only by expiry or by the release of the caller that
\* was given it.
THEOREM HolderReleases == Spec => OnlyHolderReleases
<1>1. ASSUME TypeOK, [Next]_vars, NEW k \in Keys
      PROVE  TakenRightly(k)
  <2> USE <1>1 DEF TypeOK, TakenRightly
  <2>1. ASSUME NEW c \in Callers, Release(c)
        PROVE  TakenRightly(k)
    BY <2>1 DEF Release, Leave, HoldsKey
  <2>2. ASSUME NEW c \in Callers, SetOk(c) \/ SetReplyLost(c)
        PROVE  TakenRightly(k)
    BY <2>2 DEF SetOk, SetReplyLost, SetKey
  <2>3. CASE Tick
    BY <2>3 DEF Tick, AfterExpiry
  <2>4. CASE lock' = lock
    BY <2>4
  <2> QED
    BY <2>1, <2>2, <2>3, <2>4
    DEF Next, Acquiring, vars, Call, CallNoConnection, TimeLeft, GiveUp, SetBusy, SetNotSent, Lost
<1> QED
  <2>1. TypeOK /\ [Next]_vars => [\A k \in Keys : TakenRightly(k)]_vars
    BY <1>1
  <2> QED
    BY <2>1, TypeCorrect, PTL DEF Spec, OnlyHolderReleases

-----------------------------------------------------------------------------
\* What each step is to the abstract service.
LEMMA InitServes == Init => Service!Init
  BY DEF Init, Service!Init, Given

LEMMA NextServes ==
  ASSUME TypeOK, KeysMatchLeases, [Next]_vars
  PROVE  [Service!Next]_(Service!vars)
<1> \A c \in Callers : key[c] \in Keys
  BY DEF TypeOK
\* Taking the key and returning its identifier is Acquire.
<1>1. ASSUME NEW c \in Callers, SetOk(c)
      PROVE  Service!Next
  <2>1. lock[key[c]] = NoId /\ Given[c] = NoId
    BY <1>1 DEF SetOk, SetKey, Given
  <2>2. id[c] \in Service!Fresh
    BY <1>1 DEF SetOk, SetKey, KeysMatchLeases, TypeOK, Given, Service!Fresh
  <2>3. /\ lock' = [lock EXCEPT ![key[c]] = id[c]]
        /\ Given' = [Given EXCEPT ![c] = id[c]]
    BY <1>1 DEF SetOk, SetKey, TypeOK, Given
  <2>4. Service!Acquire(c, key[c])
    BY <2>1, <2>2, <2>3 DEF Service!Acquire
  <2> QED
    BY <2>4 DEF Service!Next
\* Taking it without telling anybody is AcquireLost.
<1>2. ASSUME NEW c \in Callers, SetReplyLost(c)
      PROVE  Service!Next
  <2>1. id[c] \in Service!Fresh
    BY <1>2 DEF SetReplyLost, SetKey, KeysMatchLeases, TypeOK, Given, Service!Fresh
  <2>2. lock[key[c]] = NoId /\ Given' = Given
    BY <1>2 DEF SetReplyLost, SetKey, TypeOK, Given
  <2>3. Service!AcquireLost(key[c])
    BY <1>2, <2>1, <2>2 DEF SetReplyLost, SetKey, Service!AcquireLost
  <2> QED
    BY <2>3 DEF Service!Next
\* The script is the service's compare-and-delete.
<1>3. ASSUME NEW c \in Callers, Release(c)
      PROVE  Service!Next
  <2>1. Given[c] = id[c] /\ Given' = [Given EXCEPT ![c] = NoId]
    BY <1>3 DEF Release, Leave, TypeOK, Given
  <2>2. lock' = [lock EXCEPT ![key[c]] =
                   IF id[c] # NoId /\ @ = id[c] THEN NoId ELSE @]
    BY <1>3 DEF Release, HoldsKey, TypeOK
  <2>3. Service!Release(c, key[c])
    BY <2>1, <2>2 DEF Service!Release
  <2> QED
    BY <2>3 DEF Service!Next
<1>4. ASSUME NEW c \in Callers, Lost(c)
      PROVE  Service!Next
  <2>1. Service!Abandon(c)
    BY <1>4 DEF Lost, Leave, TypeOK, Given, Service!Abandon
  <2> QED
    BY <2>1 DEF Service!Next
\* Time expires the keys whose last unit it takes.
<1>5. ASSUME Tick
      PROVE  Service!Next
  <2> DEFINE Over == {k \in Keys : ttl[k] = 1}
  <2>1. lock' = [k \in Keys |-> IF k \in Over THEN NoId ELSE lock[k]]
    BY <1>5 DEF Tick, AfterExpiry
  <2>2. Given' = Given
    BY <1>5 DEF Tick, Given
  <2>3. Over \in SUBSET Keys /\ Service!Expire(Over)
    BY <2>1, <2>2 DEF Service!Expire
  <2> QED
    BY <2>3 DEF Service!Next
\* The other steps change neither the keys nor what a caller was given.
<1>6. ASSUME NEW c \in Callers, NEW k \in Keys,
             \/ Call(c, k) \/ CallNoConnection(c, k)
             \/ TimeLeft(c) \/ GiveUp(c) \/ SetBusy(c) \/ SetNotSent(c)
      PROVE  UNCHANGED Service!vars
  BY <1>6 DEF Call, CallNoConnection, TimeLeft, GiveUp, SetBusy, SetNotSent,
              TypeOK, KeysMatchLeases, Given, Service!vars
<1>7. CASE UNCHANGED vars
  BY <1>7 DEF vars, Given, Service!vars
<1> QED
  BY <1>1, <1>2, <1>3, <1>4, <1>5, <1>6, <1>7 DEF Next, Acquiring

\* The lock with timeouts, lost replies and crashes implements the lock service.
THEOREM Implementation == Spec => ImplementsService
  BY InitServes, NextServes, TypeCorrect, KeysMatch, PTL
  DEF Spec, ImplementsService, Service!Spec
=============================================================================
