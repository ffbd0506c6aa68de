----------------------------- MODULE LoginCount -----------------------------
(***************************************************************************)
(* LOGIN_COUNT, the Redis hash by which StatusServer chooses a ChatServer. *)
(* A ChatServer creates its field when it starts, its logic thread adds    *)
(* one per login (read, then write, under LOCK_COUNT), the timer of its    *)
(* main thread writes the number of its connections (no lock), and its     *)
(* exit deletes the field; a crash leaves it.  StatusServer reads the      *)
(* fields one by one while that goes on.  Any command may fail: RedisMgr   *)
(* has no connection, or the reply does not come.  A write whose reply     *)
(* alone is lost is a write done.                                          *)
(***************************************************************************)
EXTENDS Naturals

CONSTANTS NumServers,   \* the ChatServers of the configuration
          MaxConns,     \* bound: connections of one server at a time
          MaxEvents,    \* bound: connects and logins in all
          None

ASSUME CountAssumption == /\ NumServers \in Nat /\ MaxConns \in Nat /\ MaxEvents \in Nat
                          /\ None \notin Nat

VARIABLES count,     \* LOGIN_COUNT: the field of each server, or None
          lock,      \* LOCK_COUNT: the server whose identifier it holds, or None
          life,      \* "down", "init", "serving", "closing" (between HDel and Close)
          conns,     \* the connections in _sessions that are not expired
          worker,    \* IncreaseCount of the logic thread: where it is, the count it read
          timer,     \* on_timer: the number it is about to write, or None
          scan,      \* getChatServer, under _server_mtx
          events     \* of the model

srv  == <<life, conns, worker, timer>>
vars == <<count, lock, srv, scan, events>>

Servers == 1..NumServers
AtRest  == [pc |-> "rest", read |-> 0]
Orphan  == 0
NoScan  == [next |-> 0, min |-> None, best |-> 0, stayed |-> {}]

Init == /\ count = [s \in Servers |-> None] /\ lock = None
        /\ life = [s \in Servers |-> "down"] /\ conns = [s \in Servers |-> 0]
        /\ worker = [s \in Servers |-> AtRest] /\ timer = [s \in Servers |-> None]
        /\ scan = NoScan /\ events = 0

\* HSet and HDel, unless they fail, which nobody looks at; a server whose field goes
\* has not stayed for the scan.
HSet(s, n) == count' \in {count, [count EXCEPT ![s] = n]} /\ scan' = scan
HDel(s) == \/ /\ count' = [count EXCEPT ![s] = None]
              /\ scan' = [scan EXCEPT !.stayed = @ \ {s}]
           \/ UNCHANGED <<count, scan>>

\* acquireLock gives up after a time, and its caller goes on without the lock; a
\* release that fails leaves an identifier that nobody has any more.
Acquire(s) == lock' \in {lock, IF lock = None THEN s ELSE lock}
Release(s) == lock' \in IF lock = s THEN {None, Orphan} ELSE {lock}

LockExpires == lock # None /\ lock' = None /\ UNCHANGED <<count, srv, scan, events>>
-----------------------------------------------------------------------------
(* A ChatServer *)

\* main, up to the lock of InitCount; InitCount's write and the release.
Start(s) ==
  /\ life[s] = "down" /\ life' = [life EXCEPT ![s] = "init"]
  /\ Acquire(s)
  /\ UNCHANGED <<count, conns, worker, timer, scan, events>>

InitCount(s) ==
  /\ life[s] = "init" /\ life' = [life EXCEPT ![s] = "serving"]
  /\ HSet(s, 0) /\ Release(s)
  /\ UNCHANGED <<conns, worker, timer, events>>

Accept(s) ==
  /\ life[s] = "serving" /\ conns[s] < MaxConns /\ events < MaxEvents
  /\ conns' = [conns EXCEPT ![s] = @ + 1] /\ events' = events + 1
  /\ UNCHANGED <<count, lock, life, worker, timer, scan>>

\* DealExceptionSession runs once per connection (twice in the mutated form).
LeaveTwice(s) ==
  /\ conns[s] > 0 /\ conns' = [conns EXCEPT ![s] = @ - 2]
  /\ UNCHANGED <<count, lock, life, worker, timer, scan, events>>

Leave(s) ==
  /\ conns[s] > 0 /\ conns' = [conns EXCEPT ![s] = @ - 1]
  /\ UNCHANGED <<count, lock, life, worker, timer, scan, events>>

\* IncreaseCount: the lock, the read, the write and the release.  A field that is
\* missing or cannot be read counts as 0.
Running(s) == life[s] \in {"serving", "closing"}

IncLock(s) ==
  /\ life[s] = "serving" /\ worker[s].pc = "rest" /\ conns[s] > 0 /\ events < MaxEvents
  /\ Acquire(s) /\ events' = events + 1
  /\ worker' = [worker EXCEPT ![s].pc = "read"]
  /\ UNCHANGED <<count, life, conns, timer, scan>>

IncRead(s) ==
  /\ Running(s) /\ worker[s].pc = "read"
  /\ \E n \in {0, count[s]} \ {None} :
       worker' = [worker EXCEPT ![s] = [pc |-> "write", read |-> n]]
  /\ UNCHANGED <<count, lock, life, conns, timer, scan, events>>

IncWrite(s) ==
  /\ Running(s) /\ worker[s].pc = "write"
  /\ HSet(s, worker[s].read + 1) /\ Release(s)
  /\ worker' = [worker EXCEPT ![s] = AtRest]
  /\ UNCHANGED <<life, conns, timer, events>>

\* on_timer counts the connections that are not expired and closes the others.
TimerCount(s) ==
  /\ life[s] = "serving" /\ timer[s] = None
  /\ \E k \in 0..conns[s] : conns' = [conns EXCEPT ![s] = @ - k]
  /\ timer' = [timer EXCEPT ![s] = conns'[s]]
  /\ UNCHANGED <<count, lock, life, worker, scan, events>>

\* It writes the count and arms the timer again (the mutated form forgets to).
TimerSetOnce(s) ==
  /\ life[s] = "serving" /\ timer[s] # None
  /\ HSet(s, timer[s])
  /\ UNCHANGED <<lock, life, conns, worker, timer, events>>

TimerSet(s) ==
  /\ life[s] = "serving" /\ timer[s] # None
  /\ HSet(s, timer[s])
  /\ timer' = [timer EXCEPT ![s] = None]
  /\ UNCHANGED <<lock, life, conns, worker, events>>

\* The exit of main: HDel, then Close of the Redis pool; the logic thread runs on
\* until the pool is closed.
ExitDel(s) ==
  /\ life[s] = "serving" /\ life' = [life EXCEPT ![s] = "closing"]
  /\ HDel(s)
  /\ UNCHANGED <<lock, conns, worker, timer, events>>

\* The end of the process; nobody has the identifier of a lock it held.
Stop(s) == /\ life' = [life EXCEPT ![s] = "down"] /\ conns' = [conns EXCEPT ![s] = 0]
           /\ worker' = [worker EXCEPT ![s] = AtRest] /\ timer' = [timer EXCEPT ![s] = None]
           /\ lock' = IF lock = s THEN Orphan ELSE lock
           /\ UNCHANGED <<count, scan, events>>

ExitClose(s) == life[s] = "closing" /\ Stop(s)
Crash(s)     == life[s] \in {"init", "serving"} /\ Stop(s)
-----------------------------------------------------------------------------
(* StatusServer: next = 0 outside of getChatServer *)

ScanStart ==
  /\ scan.next = 0
  /\ scan' = [NoScan EXCEPT !.next = 1, !.stayed = {s \in Servers : count[s] # None}]
  /\ UNCHANGED <<count, lock, srv, events>>

\* A missing field counts as INT_MAX, which is not less than the minimum so far (the
\* mutated form starts from a minimum of 0).  So does one that cannot be read: it may
\* have stayed in Redis, not for this scan.
BetterThanZero(n, min) == n # None /\ min # None /\ n < min
Better(n, min)         == n # None /\ (min = None \/ n < min)

ScanNext ==
  /\ scan.next \in Servers
  /\ LET n == count[scan.next]
     IN \/ scan' = IF Better(n, scan.min)
                   THEN [scan EXCEPT !.next = @ + 1, !.min = n, !.best = scan.next]
                   ELSE [scan EXCEPT !.next = @ + 1]
        \/ scan' = [scan EXCEPT !.next = @ + 1, !.stayed = @ \ {scan.next}]
  /\ UNCHANGED <<count, lock, srv, events>>

\* The answer: the server found, or the empty one.
ScanEnd ==
  /\ scan.next > NumServers
  /\ scan' = NoScan
  /\ UNCHANGED <<count, lock, srv, events>>
-----------------------------------------------------------------------------
Work(s) == InitCount(s) \/ IncRead(s) \/ IncWrite(s) \/ TimerCount(s) \/ TimerSet(s)

Next == \/ \E s \in Servers : \/ Work(s) \/ Start(s) \/ Accept(s) \/ Leave(s) \/ IncLock(s)
                              \/ ExitDel(s) \/ ExitClose(s) \/ Crash(s)
        \/ LockExpires \/ ScanStart \/ ScanNext \/ ScanEnd

Spec == Init /\ [][Next]_vars

\* The logic thread and the timer of a server go on as long as it runs, and of the
\* timer's writes, one a minute for ever, not all that are left fail.
Written(s) == TimerSet(s) /\ count'[s] = timer[s]

FairSpec == /\ Spec
            /\ \A s \in Servers : /\ WF_vars(TimerCount(s)) /\ WF_vars(TimerSet(s))
                                  /\ WF_vars(IncRead(s)) /\ WF_vars(IncWrite(s))
                                  /\ SF_vars(Written(s))
-----------------------------------------------------------------------------
TypeOK ==
  /\ count \in [Servers -> Nat \cup {None}] /\ lock \in Servers \cup {Orphan, None}
  /\ life \in [Servers -> {"down", "init", "serving", "closing"}]
  /\ conns \in [Servers -> 0..MaxConns] /\ timer \in [Servers -> 0..MaxConns \cup {None}]
  /\ worker \in [Servers -> [pc : {"rest", "read", "write"}, read : Nat]]
  /\ scan \in [next : 0..(NumServers + 1), min : Nat \cup {None}, best : 0..NumServers,
              stayed : SUBSET Servers]
  /\ events \in 0..MaxEvents

\* The counts change between two reads of a scan: one server whose field was there
\* all the time and could be read is enough for the answer not to be the empty server.
SomeServerFound == scan.next > NumServers /\ scan.stayed # {} => scan.best # 0

\* The race of the timer and the logic thread, and a read or write that failed, can
\* misstate a count, but not for long: once nobody connects, leaves or logs in, the
\* field is the true number.
CountSettles == \A s \in Servers :
  <>[](life[s] = "serving") => <>[](count[s] = conns[s])
=============================================================================
