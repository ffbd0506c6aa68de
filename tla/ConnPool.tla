------------------------------ MODULE ConnPool ------------------------------
(***************************************************************************)
(* The connection pools: RedisConnPool, MySqlPool and the two RpcConnPool  *)
(* templates.  They share a queue of free connections, a mutex and a       *)
(* condition variable; Redis and MySQL add a thread that probes the free   *)
(* connections and replaces the dead ones, each in its own way.  A caller  *)
(* that finds the queue empty still holds the mutex until it sleeps; every *)
(* other critical section is one step.                                     *)
(***************************************************************************)
EXTENDS Naturals, Sequences, FiniteSets

CONSTANTS Users,     \* the threads that use the pool
          Nested,    \* those that ask for a connection while they hold one
          PoolSize,
          Kinds      \* the pools to check

ASSUME PoolAssumption == /\ IsFiniteSet(Users) /\ Nested \subseteq Users
                         /\ PoolSize \in Nat \ {0}
                         /\ Kinds \subseteq {"redis", "mysql", "rpc"}

VARIABLES kind, size,  \* which pool this is, and what its constructor put in it
          free,        \* _conns
          held,        \* the connections each user holds
          pc,          \* users: "run", "sleepy" (predicate false, mutex held), "asleep", "woken"
          stop,        \* _b_stop
          up, broken,  \* the server answers; the connections it has dropped
          chk,         \* the check thread: where it is, what is left of the round,
                       \* the connection it probes, those checked in this round
          fail         \* _fail_count

env  == <<up, broken>>
conf == <<kind, size>>
vars == <<conf, env, free, held, pc, stop, chk, fail>>

Conns  == 1..PoolSize
NoConn == 0
Rest   == [pc |-> "rest", left |-> 0, conn |-> NoConn, checked |-> {}]

Free   == {free[i] : i \in DOMAIN free}
Held   == UNION {held[u] : u \in Users}
Probed == {chk.conn} \ {NoConn}
Live   == Free \cup Held \cup Probed

MutexFree == \A u \in Users : pc[u] # "sleepy"

Asleep == {u \in Users : pc[u] = "asleep"}
Woken  == {u \in Users : pc[u] = "woken"}

\* The constructors.  Redis goes on after a failed connect, MySQL gives up and
\* starts no check thread; the flag of ChatServer's RpcConnPool is not initialised.
InitRedis == kind = "redis" /\ size \in 0..PoolSize /\ stop = FALSE /\ chk = Rest
InitMySql == /\ kind = "mysql" /\ size \in 0..PoolSize /\ stop = FALSE
             /\ chk = IF size = PoolSize THEN Rest ELSE [Rest EXCEPT !.pc = "none"]
InitRpc   == /\ kind = "rpc" /\ size = PoolSize /\ stop \in BOOLEAN
             /\ chk = [Rest EXCEPT !.pc = "none"]

Init == /\ kind \in Kinds /\ (InitRedis \/ InitMySql \/ InitRpc)
        /\ free = [i \in 1..size |-> i]
        /\ held = [u \in Users |-> {}] /\ pc = [u \in Users |-> "run"]
        /\ up = TRUE /\ broken = {} /\ fail = 0

\* notify_one and notify_all (forgotten in the mutated forms).
NotifyNone(p) == {p}
NotifyOne(p) == IF Asleep = {} THEN {p} ELSE {[p EXCEPT ![w] = "woken"] : w \in Asleep}
NotifyNobody(p) == p
NotifyAll(p) == [u \in Users |-> IF u \in Asleep THEN "woken" ELSE p[u]]

\* A connection put back (the mutated form notifies only when the queue was empty).
PushQuiet(c) == free' = Append(free, c) /\ pc' \in IF free = <<>> THEN NotifyOne(pc) ELSE {pc}
Push(c)      == free' = Append(free, c) /\ pc' \in NotifyOne(pc)
-----------------------------------------------------------------------------
(* getConnection and returnConnection *)

\* GetFriendList asks for a second connection for each friend's record (in the
\* mutated form every operation does).
AnyoneNests(u) == Cardinality(held[u]) <= 1
MayAsk(u) == held[u] = {} \/ (kind = "mysql" /\ u \in Nested /\ Cardinality(held[u]) = 1)

AtPredicate(u) == MutexFree /\ (pc[u] = "woken" \/ (pc[u] = "run" /\ MayAsk(u)))

GetNull(u) ==
  /\ AtPredicate(u) /\ stop
  /\ pc' = [pc EXCEPT ![u] = "run"]
  /\ UNCHANGED <<conf, env, free, held, stop, chk, fail>>

Take(u) ==
  /\ AtPredicate(u) /\ ~stop /\ free # <<>>
  /\ held' = [held EXCEPT ![u] = @ \cup {Head(free)}]
  /\ free' = Tail(free)
  /\ pc' = [pc EXCEPT ![u] = "run"]
  /\ UNCHANGED <<conf, env, stop, chk, fail>>

FindEmpty(u) ==
  /\ AtPredicate(u) /\ ~stop /\ free = <<>>
  /\ pc' = [pc EXCEPT ![u] = "sleepy"]
  /\ UNCHANGED <<conf, env, free, held, stop, chk, fail>>

Sleep(u) ==
  /\ pc[u] = "sleepy"
  /\ pc' = [pc EXCEPT ![u] = "asleep"]
  /\ UNCHANGED <<conf, env, free, held, stop, chk, fail>>

\* The mutated form puts the connection back and goes on with it.
ReturnKeeps(u, c) ==
  /\ MutexFree /\ pc[u] = "run" /\ c \in held[u]
  /\ IF stop THEN UNCHANGED <<free, pc>> ELSE Push(c)
  /\ UNCHANGED <<conf, env, held, stop, chk, fail>>

Return(u, c) ==
  /\ MutexFree /\ pc[u] = "run" /\ c \in held[u]
  /\ held' = [held EXCEPT ![u] = @ \ {c}]
  /\ IF stop THEN UNCHANGED <<free, pc>> ELSE Push(c)
  /\ UNCHANGED <<conf, env, stop, chk, fail>>

\* Close of Redis and MySQL, without the mutex.
Close ==
  /\ kind # "rpc" /\ ~stop
  /\ stop' = TRUE /\ pc' = NotifyAll(pc)
  /\ UNCHANGED <<conf, env, free, held, chk, fail>>
-----------------------------------------------------------------------------
(* The check threads *)

StartSweep ==
  /\ chk.pc = "rest" /\ ~stop /\ MutexFree
  /\ chk' = [pc |-> "sweep", left |-> Len(free), conn |-> NoConn, checked |-> {}]
  /\ UNCHANGED <<conf, env, free, held, pc, stop, fail>>

\* The end of a round: MySQL reconnects now, Redis has done so after each
\* connection that answered (and so does MySQL in the mutated form).
AfterSweepAsRedis == "rest"
AfterSweep == IF kind = "mysql" THEN "reconnect" ELSE "rest"

PopProbe ==
  /\ chk.pc = "sweep" /\ chk.left > 0 /\ free # <<>> /\ ~stop /\ MutexFree
  /\ free' = Tail(free)
  /\ chk' = [chk EXCEPT !.pc = "probe", !.left = @ - 1, !.conn = Head(free)]
  /\ UNCHANGED <<conf, env, held, pc, stop, fail>>

EndSweep ==
  /\ chk.pc = "sweep" /\ MutexFree
  /\ chk.left = 0 \/ free = <<>> \/ stop
  /\ chk' = [chk EXCEPT !.pc = AfterSweep]
  /\ UNCHANGED <<conf, env, free, held, pc, stop, fail>>

Answers == chk.conn \notin broken

\* The probe has failed: the connection is freed and counted (not counted in the
\* mutated form).
ProbeFailsUncounted ==
  /\ chk.pc = "probe" /\ ~Answers /\ chk.conn \notin chk.checked
  /\ chk' = [chk EXCEPT !.pc = "sweep", !.conn = NoConn]
  /\ UNCHANGED <<conf, env, free, held, pc, stop, fail>>

ProbeFails ==
  /\ chk.pc = "probe" /\ ~Answers /\ chk.conn \notin chk.checked
  /\ fail' = fail + 1
  /\ chk' = [chk EXCEPT !.pc = "sweep", !.conn = NoConn]
  /\ UNCHANGED <<conf, env, free, held, pc, stop>>

\* PING answered: the connection goes back, and the failed ones are replaced.
PingOk ==
  /\ chk.pc = "probe" /\ kind = "redis" /\ Answers /\ MutexFree
  /\ IF stop THEN UNCHANGED <<free, pc>> ELSE Push(chk.conn)
  /\ chk' = [chk EXCEPT !.pc = "reconnect", !.conn = NoConn]
  /\ UNCHANGED <<conf, env, held, stop, fail>>

SelectOk ==
  /\ chk.pc = "probe" /\ kind = "mysql" /\ Answers /\ MutexFree
  /\ chk.conn \notin chk.checked
  /\ Push(chk.conn)
  /\ chk' = [chk EXCEPT !.pc = "sweep", !.conn = NoConn, !.checked = @ \cup {chk.conn}]
  /\ UNCHANGED <<conf, env, held, stop, fail>>

\* A connection that comes up again in its round was used less than five seconds
\* ago: it is neither probed nor pushed back nor counted.
ForgetRecent ==
  /\ chk.pc = "probe" /\ chk.conn \in chk.checked
  /\ chk' = [chk EXCEPT !.pc = "sweep", !.conn = NoConn]
  /\ UNCHANGED <<conf, env, free, held, pc, stop, fail>>

AfterReconnect == IF kind = "mysql" THEN "rest" ELSE "sweep"

\* Redis hands it back as a caller does; MySQL pushes it without a notification.
Replace(c) == IF kind = "mysql" THEN free' = Append(free, c) /\ pc' = pc
              ELSE IF stop THEN UNCHANGED <<free, pc>> ELSE Push(c)

\* A new connection takes the number c of a dead one (the mutated form makes one
\* too many).
ReconnectAlways(c) ==
  /\ chk.pc = "reconnect" /\ up /\ MutexFree /\ c \notin Live
  /\ Replace(c) /\ broken' = broken \ {c} /\ fail' = fail - 1
  /\ UNCHANGED <<conf, up, held, stop, chk>>

Reconnect(c) ==
  /\ chk.pc = "reconnect" /\ fail > 0 /\ up /\ MutexFree
  /\ c \notin Live
  /\ Replace(c)
  /\ broken' = broken \ {c}
  /\ fail' = fail - 1
  /\ UNCHANGED <<conf, up, held, stop, chk>>

\* Nothing is left to replace, or a reconnect fails.  Redis's may always fail: it
\* sends AUTH with an empty password too, which a server without one refuses for
\* ever, and its host and password point into strings of the constructor of RedisMgr
\* that are gone, so that they hold anything.
EndReconnect ==
  /\ chk.pc = "reconnect" /\ (fail = 0 \/ ~up \/ kind = "redis")
  /\ chk' = IF AfterReconnect = "rest" THEN Rest ELSE [chk EXCEPT !.pc = "sweep"]
  /\ UNCHANGED <<conf, env, free, held, pc, stop, fail>>
-----------------------------------------------------------------------------
(* The server *)

Outage  == up /\ up' = FALSE /\ broken' = Live
           /\ UNCHANGED <<conf, free, held, pc, stop, chk, fail>>
Recover == ~up /\ up' = TRUE /\ UNCHANGED <<conf, broken, free, held, pc, stop, chk, fail>>
Drop(c) == /\ c \in Live \ broken /\ broken' = broken \cup {c}
           /\ UNCHANGED <<conf, up, free, held, pc, stop, chk, fail>>

User(u) == GetNull(u) \/ Take(u) \/ FindEmpty(u) \/ Sleep(u) \/ \E c \in Conns : Return(u, c)
Check == \/ StartSweep \/ PopProbe \/ EndSweep \/ ProbeFails \/ PingOk \/ SelectOk
         \/ ForgetRecent \/ EndReconnect \/ \E c \in Conns : Reconnect(c)
Server == Outage \/ Recover \/ \E c \in Conns : Drop(c)

Next == (\E u \in Users : User(u)) \/ Close \/ Check \/ Server
Spec == Init /\ [][Next]_vars

\* A user returns what it took, one that is awake gets the mutex, and the check
\* thread runs its rounds.
FairSpec == /\ Spec /\ SF_vars(Check)
            /\ \A u \in Users : /\ SF_vars(\E c \in Conns : Return(u, c))
                                /\ SF_vars(pc[u] # "run" /\ User(u))
-----------------------------------------------------------------------------
TypeOK ==
  /\ kind \in Kinds /\ size \in 0..PoolSize
  /\ free \in Seq(Conns) /\ held \in [Users -> SUBSET Conns]
  /\ pc \in [Users -> {"run", "sleepy", "asleep", "woken"}]
  /\ stop \in BOOLEAN /\ up \in BOOLEAN /\ broken \in SUBSET Conns
  /\ fail \in Nat
  /\ chk \in [pc : {"none", "rest", "sweep", "probe", "reconnect"}, left : Nat,
             conn : Conns \cup {NoConn}, checked : SUBSET Conns]

\* A connection is in one place: twice in the queue, with two users, or with a
\* user and the check thread at once, two requests would share one socket.
OnePlace ==
  /\ \A i, j \in DOMAIN free : free[i] = free[j] => i = j
  /\ \A u, v \in Users : u # v => held[u] \cap held[v] = {}
  /\ Free \cap Held = {} /\ chk.conn \notin Free \cup Held

\* Every connection the constructor made is in use or counted for replacement;
\* MySQL's check thread may lose some (ForgetRecent), never gains one.
Accounted ==
  ~stop => LET n == Cardinality(Live) + fail IN IF kind = "mysql" THEN n <= size ELSE n = size

\* A free connection that nobody was woken for waits in vain beside a user that
\* sleeps for one.  Close is not under the mutex: it misses a user between its
\* predicate and its sleep, and that one only.
NoLostWakeup ==
  /\ kind # "mysql" /\ ~stop /\ Asleep # {} => Len(free) <= Cardinality(Woken)
  /\ stop => \A u, v \in Asleep : u = v

\* Everyone waiting on everyone takes as many GetFriendLists as connections left.
StuckOnlyIfNested ==
  /\ Asleep = Users /\ Users # {} /\ free = <<>> /\ chk.conn = NoConn
  => Cardinality(Live) <= IF kind = "mysql" THEN Cardinality(Nested) ELSE 0

\* While the server stays up, sleepers do not stay beside a free connection; MySQL
\* pushes without a notification, and its next round makes up for it.
SleepersMeetFree == []<>(Asleep = {} \/ free = <<>> \/ stop \/ ~up \/ broken # {})

\* While the server stays up, MySQL's next round replaces what failed.  Of Redis there
\* is less to say: the comment at redis_mgr.cc:117 leaves a failed reconnect to the
\* next time, and next times come, but only after a PING was answered: an idle pool
\* with one connection that answers goes on trying, an emptied one never does.
CanReconnect == up /\ (kind = "redis" => Held = {} /\ Live \ broken # {})
Reconnecting == kind = "redis" /\ chk.pc = "reconnect" /\ fail > 0
FailedAreRetried == []<>(fail = 0 \/ Reconnecting \/ stop \/ ~CanReconnect)
=============================================================================
