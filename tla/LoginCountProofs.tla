-------------------------- MODULE LoginCountProofs --------------------------
(***************************************************************************)
(* Theorems of LoginCount, for any number of ChatServers and any bounds.   *)
(***************************************************************************)
EXTENDS LoginCount, TLAPS

USE CountAssumption

\* The parts of the type invariant that steps of different actors disturb.
LEMMA InitTyped == Init => TypeOK
  BY DEF Init, TypeOK, Servers, AtRest, NoScan, Orphan

\* A write of n to a field, and its removal, keep the types of both.
LEMMA FieldsTyped ==
  ASSUME TypeOK, NEW s \in Servers, NEW n \in Nat, HSet(s, n) \/ HDel(s)
  PROVE  /\ count' \in [Servers -> Nat \cup {None}]
         /\ scan' \in [next : 0..(NumServers + 1), min : Nat \cup {None}, best : 0..NumServers,
                       stayed : SUBSET Servers]
  BY DEF TypeOK, HSet, HDel

LEMMA NextTyped == TypeOK /\ [Next]_vars => TypeOK'
<1> SUFFICES ASSUME TypeOK, [Next]_vars
             PROVE  TypeOK'
  OBVIOUS
<1>1. ASSUME NEW s \in Servers, InitCount(s) \/ IncWrite(s) \/ TimerSet(s)
      PROVE  TypeOK'
  <2>1. CASE InitCount(s)
    <3>1. HSet(s, 0)
      BY <2>1 DEF InitCount
    <3> QED
      BY <2>1, <3>1, FieldsTyped DEF InitCount, Release, TypeOK
  <2>2. CASE IncWrite(s)
    <3>1. worker[s].read + 1 \in Nat /\ HSet(s, worker[s].read + 1)
      BY <2>2 DEF IncWrite, TypeOK
    <3> QED
      BY <2>2, <3>1, FieldsTyped DEF IncWrite, Release, AtRest, TypeOK
  <2>3. CASE TimerSet(s)
    <3>1. timer[s] \in Nat /\ HSet(s, timer[s])
      BY <2>3 DEF TimerSet, TypeOK
    <3> QED
      BY <2>3, <3>1, FieldsTyped DEF TimerSet, TypeOK
  <2> QED
    BY <1>1, <2>1, <2>2, <2>3
<1>2. ASSUME NEW s \in Servers, ExitDel(s)
      PROVE  TypeOK'
  BY <1>2, FieldsTyped DEF ExitDel, TypeOK
<1>3. ASSUME NEW s \in Servers, Start(s) \/ Accept(s) \/ Leave(s)
      PROVE  TypeOK'
  BY <1>3 DEF Start, Acquire, Accept, Leave, TypeOK
<1>4. ASSUME NEW s \in Servers, IncLock(s) \/ IncRead(s)
      PROVE  TypeOK'
  <2>1. CASE IncLock(s)
    <3>1. /\ worker' = [worker EXCEPT ![s].pc = "read"] /\ events' \in 0..MaxEvents
          /\ lock' \in Servers \cup {Orphan, None}
      BY <2>1 DEF IncLock, Acquire, TypeOK
    <3>2. worker' \in [Servers -> [pc : {"rest", "read", "write"}, read : Nat]]
      BY <3>1 DEF TypeOK
    <3> QED
      BY <2>1, <3>1, <3>2 DEF IncLock, TypeOK
  <2>2. CASE IncRead(s)
    <3>1. \A n \in {0, count[s]} \ {None} : n \in Nat
      BY DEF TypeOK
    <3> QED
      BY <2>2, <3>1 DEF IncRead, TypeOK
  <2> QED
    BY <1>4, <2>1, <2>2
<1>5. ASSUME NEW s \in Servers, TimerCount(s)
      PROVE  TypeOK'
  BY <1>5 DEF TimerCount, TypeOK
<1>6. ASSUME NEW s \in Servers, ExitClose(s) \/ Crash(s)
      PROVE  TypeOK'
  <2>1. Stop(s)
    BY <1>6 DEF ExitClose, Crash
  <2>2. lock' \in Servers \cup {Orphan, None} /\ 0 \in 0..MaxConns
    BY <2>1 DEF Stop, TypeOK
  <2>3. AtRest \in [pc : {"rest", "read", "write"}, read : Nat]
    BY DEF AtRest
  <2> QED
    BY <2>1, <2>2, <2>3 DEF Stop, TypeOK
<1>7. CASE ScanStart \/ ScanNext \/ ScanEnd
  <2> DEFINE Scans == [next : 0..(NumServers + 1), min : Nat \cup {None}, best : 0..NumServers,
                       stayed : SUBSET Servers]
  <2>1. NoScan \in Scans
    BY DEF NoScan
  <2>2. CASE ScanStart
    <3>1. scan' = [next |-> 1, min |-> None, best |-> 0, stayed |-> {s \in Servers : count[s] # None}]
      BY <2>2 DEF ScanStart, NoScan
    <3>2. scan' \in Scans
      BY <3>1
    <3> QED
      BY <2>2, <3>2 DEF ScanStart, srv, TypeOK
  <2>3. CASE ScanNext
    <3>1. scan.next + 1 \in 0..(NumServers + 1) /\ scan.next \in 0..NumServers
      BY <2>3 DEF ScanNext, Servers, TypeOK
    <3>2. Better(count[scan.next], scan.min) => count[scan.next] \in Nat
      BY <2>3 DEF ScanNext, Better, TypeOK
    <3>3. scan \in Scans /\ scan.next \in Servers
      BY <2>3 DEF ScanNext, TypeOK
    <3>4. \/ scan' = [scan EXCEPT !.next = @ + 1]
          \/ scan' = [scan EXCEPT !.next = @ + 1, !.stayed = @ \ {scan.next}]
          \/ /\ Better(count[scan.next], scan.min)
             /\ scan' = [scan EXCEPT !.next = @ + 1, !.min = count[scan.next], !.best = scan.next]
      BY <2>3 DEF ScanNext
    <3>5. scan' \in Scans
      BY <3>1, <3>2, <3>3, <3>4
    <3> QED
      BY <2>3, <3>5 DEF ScanNext, srv, TypeOK
  <2>4. CASE ScanEnd
    BY <2>1, <2>4 DEF ScanEnd, srv, TypeOK
  <2> QED
    BY <1>7, <2>2, <2>3, <2>4
<1>8. CASE LockExpires \/ UNCHANGED vars
  BY <1>8 DEF LockExpires, vars, srv, TypeOK
<1> QED
  BY <1>1, <1>2, <1>3, <1>4, <1>5, <1>6, <1>7, <1>8 DEF Next, Work

\* TypeOK is an invariant: in particular a server never has less than no connections.
THEOREM TypeCorrect == Spec => []TypeOK
  BY InitTyped, NextTyped, PTL DEF Spec
-----------------------------------------------------------------------------
\* What a scan knows half-way: a server that has stayed still has its field, and
\* once one of them has been passed, some server has been found.
ScanInv ==
  /\ \A s \in scan.stayed : count[s] # None
  /\ \A s \in scan.stayed : s < scan.next => scan.best # 0
  /\ scan.min = None => scan.best = 0
  /\ scan.best = 0 => scan.min = None

LEMMA NextScans == TypeOK /\ ScanInv /\ [Next]_vars => ScanInv'
<1> SUFFICES ASSUME TypeOK, ScanInv, [Next]_vars
             PROVE  ScanInv'
  OBVIOUS
<1>1. ASSUME NEW s \in Servers, NEW n \in Nat, HSet(s, n)
      PROVE  ScanInv'
  BY <1>1 DEF HSet, ScanInv, TypeOK
<1>2. ASSUME NEW s \in Servers, HDel(s)
      PROVE  ScanInv'
  BY <1>2 DEF HDel, ScanInv, TypeOK
<1>3. ASSUME NEW s \in Servers, InitCount(s) \/ IncWrite(s) \/ TimerSet(s)
      PROVE  ScanInv'
  BY <1>1, <1>3 DEF InitCount, IncWrite, TimerSet, TypeOK
<1>4. CASE ScanStart
  BY <1>4 DEF ScanStart, NoScan, ScanInv, Servers, TypeOK
<1>5. CASE ScanNext
  <2> DEFINE n == count[scan.next]
  <2>1. CASE /\ Better(n, scan.min)
             /\ scan' = [scan EXCEPT !.next = @ + 1, !.min = n, !.best = scan.next]
    <3>1. scan'.best # 0 /\ scan'.min # None /\ scan'.stayed = scan.stayed
      BY <1>5, <2>1 DEF ScanNext, Better, Servers, TypeOK
    <3> QED
      BY <1>5, <3>1 DEF ScanNext, ScanInv
  <2>2. CASE ~Better(n, scan.min) /\ scan' = [scan EXCEPT !.next = @ + 1]
    <3>1. scan.next \in scan.stayed => scan.min # None
      BY <2>2 DEF Better, ScanInv
    <3>2. /\ scan'.stayed = scan.stayed /\ scan'.min = scan.min /\ scan'.best = scan.best
          /\ scan'.next = scan.next + 1
      BY <2>2 DEF TypeOK
    <3>3. \A s \in scan.stayed : s < scan.next + 1 => s < scan.next \/ s = scan.next
      BY DEF Servers, TypeOK
    <3> QED
      BY <1>5, <3>1, <3>2, <3>3 DEF ScanNext, ScanInv
  <2>3. CASE scan' = [scan EXCEPT !.next = @ + 1, !.stayed = @ \ {scan.next}]
    <3>1. /\ scan'.stayed = scan.stayed \ {scan.next} /\ scan'.min = scan.min
          /\ scan'.best = scan.best /\ scan'.next = scan.next + 1
      BY <2>3 DEF TypeOK
    <3>2. \A s \in scan'.stayed : s < scan.next + 1 => s < scan.next
      BY <3>1 DEF Servers, TypeOK
    <3> QED
      BY <1>5, <3>1, <3>2 DEF ScanNext, ScanInv
  <2> QED
    BY <1>5, <2>1, <2>2, <2>3 DEF ScanNext
<1>6. CASE ScanEnd
  BY <1>6 DEF ScanEnd, NoScan, ScanInv
<1>7. CASE UNCHANGED <<count, scan>>
  BY <1>7 DEF ScanInv
<1> QED
  BY <1>2, <1>3, <1>4, <1>5, <1>6, <1>7
  DEF Next, Work, Start, Accept, Leave, IncLock, IncRead, TimerCount, ExitDel, ExitClose, Crash,
      Stop, LockExpires, vars

\* StatusServer answers with a server if one was there during the whole scan and its
\* field could be read, in whatever order the servers write, delete and restore their
\* fields meanwhile, and whichever other reads and writes fail.
THEOREM ServerFound == Spec => []SomeServerFound
<1>1. Init => ScanInv
  BY DEF Init, NoScan, ScanInv
<1>2. TypeOK /\ ScanInv => SomeServerFound
  BY DEF TypeOK, ScanInv, SomeServerFound, Servers
<1> QED
  BY <1>1, <1>2, TypeCorrect, NextScans, PTL DEF Spec
=============================================================================
