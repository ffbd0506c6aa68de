------------------------------ MODULE ChatLogin ------------------------------
(***************************************************************************)
(* Who is online, where, on which connection: the life of a client's       *)
(* connection to a ChatServer (CSession), the table of live connections    *)
(* (CServer::_sessions), the login handler that runs on the logic thread,  *)
(* the kick of an earlier login on this server or, by gRPC, on another,    *)
(* the clean-up after a broken connection, the heartbeat timer, and the    *)
(* keys in Redis that all servers share.                                   *)
(*                                                                         *)
(* Threads of one server: the main io_context (accept, timer), one thread  *)
(* for each connection's callbacks, the logic thread, gRPC threads.        *)
(* The per-user lock is LockService, one key per user.                     *)
(***************************************************************************)
EXTENDS Naturals, FiniteSets, Sequences

CONSTANTS Servers, Users, Sessions,   \* Sessions: UUIDs, each accepted at most once
          NoServer, NoUser, NoSession, NoId, DeadId,
          MaxMsgs,       \* requests a client sends on one connection
          MaxFaults,     \* bound: restarts, lost commands and failed kicks, together
          Garbage,       \* what an uninitialised _user_id may hold, as far as it matters
          FirstBeat,     \* and an uninitialised _last_heartbeat
          MayTimeout,    \* acquireLock may return "", a held lock may expire
          RpcMayFail,    \* a kick may be lost or answered with an error
          RedisMayFail   \* a command to Redis may be lost, or its reply

ASSUME ParameterAssumption ==
  /\ MaxMsgs \in Nat /\ MaxFaults \in Nat
  /\ Garbage \subseteq Users \union {NoUser} /\ FirstBeat \subseteq {"usual", "future"}
  /\ MayTimeout \in BOOLEAN /\ RpcMayFail \in BOOLEAN /\ RedisMayFail \in BOOLEAN

VARIABLES
  srv, sock, reading, heard, userId, queued, writing, sent,  \* CSession
  sessions, accepted,          \* CServer: _sessions; the session HandleAccept is at
  expired,                     \* CServer: on_timer's _expired_session still to do
  userMgr,                     \* UserMgr::_uid_to_session
  logicQ, login,               \* LogicSystem: _msg_que; where LoginHandler is
  posting,                     \* PostMsgToQue calls that wait for its mutex
  deal,                        \* where DealExceptionSession is, on each thread
  kicks,                       \* NotifyKickUser requests under way
  kickFailed,                  \* history: a kick was lost, or not waited for
  uip, usession, lock, ident,  \* Redis, and the lock identifiers threads hold
  lost,                        \* history: which commands about which user were lost
  crashes

connection == <<srv, sock, reading, heard, userId, queued, writing, sent>>
server     == <<sessions, accepted, expired, userMgr, logicQ, login, posting, deal>>
rpc        == <<kicks, kickFailed>>
redis      == <<uip, usession, lock, ident, lost>>
vars       == <<connection, server, redis, rpc, crashes>>

\* The threads that take a user's lock.
Io(s)     == <<"io", s>>
Main(v)   == <<"main", v>>
Worker(v) == <<"worker", v>>
Dealers   == {Io(s) : s \in Sessions} \union {Main(v) : v \in Servers}
Threads   == Dealers \union {Worker(v) : v \in Servers}

ASSUME NullAssumption ==
  /\ NoServer \notin Servers /\ NoUser \notin Users /\ NoSession \notin Sessions
  /\ NoId \notin Threads /\ DeadId \notin Threads /\ NoId # DeadId

Locks == INSTANCE LockService WITH Callers <- Threads, Keys <- Users,
                                   Ids <- Threads \union {DeadId}

\* An identifier is only ever compared: the thread's name stands for it.
Acquired(t, u)   == Locks!Acquire(t, u) /\ ident'[t] = t
NotAcquired      == MayTimeout /\ UNCHANGED <<lock, ident>>

Faults == crashes + Cardinality(lost) + IF kickFailed THEN 1 ELSE 0

\* Get, Set, Del and releaseLock of RedisMgr return false without a connection or
\* without a reply, and nobody who calls them stops on it.  Here the command had no
\* effect; one that only lost its reply is a GET lost, or a SET or DEL done.  A loss
\* is recorded when it matters to what happens next.
Commands   == {"getIp", "setIp", "setSession", "check", "delSession", "delIp", "release"}
Lose(c, u) == /\ RedisMayFail
              /\ <<c, u>> \in lost \/ Faults < MaxFaults
              /\ lost' = lost \union {<<c, u>>}

\* A call of NotifyKickUser fails.
KickFails == /\ RpcMayFail
             /\ kickFailed \/ Faults < MaxFaults
             /\ kickFailed' = TRUE

\* The identifier of a release that was lost is nobody's any more.
Released(t, u) == \/ Locks!Release(t, u) /\ UNCHANGED lost
                  \/ /\ Lose("release", u)
                     /\ lock' = [lock EXCEPT ![u] = IF @ = t THEN DeadId ELSE @]
                     /\ ident' = [ident EXCEPT ![t] = NoId]

NotDealing == [pc |-> "no", s |-> NoSession, u |-> NoUser]
AtRest     == [pc |-> "idle", to |-> NoServer]

Init ==
  /\ srv = [s \in Sessions |-> NoServer]
  /\ sock = [s \in Sessions |-> "new"]
  /\ reading = [s \in Sessions |-> FALSE]
  /\ heard = [s \in Sessions |-> "usual"]
  /\ userId = [s \in Sessions |-> NoUser]
  /\ queued = [s \in Sessions |-> 0]
  /\ writing = [s \in Sessions |-> "no"]
  /\ sent = [s \in Sessions |-> 0]
  /\ sessions = [v \in Servers |-> {}]
  /\ accepted = [v \in Servers |-> NoSession]
  /\ expired = [v \in Servers |-> {}]
  /\ userMgr = [v \in Servers |-> [u \in Users |-> NoSession]]
  /\ logicQ = [v \in Servers |-> <<>>]
  /\ login = [v \in Servers |-> AtRest]
  /\ posting = {}
  /\ deal = [t \in Dealers |-> NotDealing]
  /\ kicks = {} /\ kickFailed = FALSE
  /\ uip = [u \in Users |-> NoServer]
  /\ usession = [u \in Users |-> NoSession]
  /\ Locks!Init /\ lost = {}
  /\ crashes = 0
-----------------------------------------------------------------------------
(* Connections *)

\* An async_write on a closed socket can only fail.
NewWrite(s) == IF sock[s] = "closed" THEN "doomed" ELSE "started"

\* CSession::Send: queue the message; start an async_write only if it is alone.
SendTo(s) ==
  /\ queued' = [queued EXCEPT ![s] = @ + 1]
  /\ writing' = IF queued[s] = 0 THEN [writing EXCEPT ![s] = NewWrite(s)] ELSE writing

\* CServer::ClearSession.
ClearSession(v, s) == sessions' = [sessions EXCEPT ![v] = @ \ {s}]

\* The main thread of v is not inside HandleAccept or on_timer.
MainFree(v) == /\ accepted[v] = NoSession
               /\ expired[v] = {} /\ deal[Main(v)] = NotDealing

\* The thread of s is not inside DealExceptionSession nor in PostMsgToQue.
IoFree(s) == deal[Io(s)] = NotDealing /\ \A p \in posting : p[1] # s

\* HandleAccept up to Start(): the first read is pending, on another thread, and
\* the session is not in _sessions yet.  _user_id and _last_heartbeat were never
\* initialised and hold anything.
HandleAccept(v, s) ==
  /\ sock[s] = "new" /\ MainFree(v)
  /\ srv' = [srv EXCEPT ![s] = v]
  /\ sock' = [sock EXCEPT ![s] = "up"]
  /\ reading' = [reading EXCEPT ![s] = TRUE]
  /\ \E u \in Garbage : userId' = [userId EXCEPT ![s] = u]
  /\ \E h \in FirstBeat : heard' = [heard EXCEPT ![s] = h]
  /\ accepted' = [accepted EXCEPT ![v] = s]
  /\ UNCHANGED <<queued, writing, sent, sessions, expired, userMgr, logicQ, posting, login,
                 deal, rpc, redis, crashes>>

\* The rest of HandleAccept.
InsertSession(v) ==
  /\ accepted[v] # NoSession
  /\ sessions' = [sessions EXCEPT ![v] = @ \union {accepted[v]}]
  /\ accepted' = [accepted EXCEPT ![v] = NoSession]
  /\ UNCHANGED <<connection, expired, userMgr, logicQ, posting, login, deal, rpc, redis,
                 crashes>>

\* The client closes its end, or the network does.
PeerGone(s) ==
  /\ sock[s] = "up"
  /\ sock' = [sock EXCEPT ![s] = "gone"]
  /\ UNCHANGED <<srv, reading, heard, userId, queued, writing, sent, server, rpc,
                 redis, crashes>>

\* CServer::CheckValid.
CheckValid(s) == s \in sessions[srv[s]]

\* The worker holds the mutex of the queue while a handler runs, and PostMsgToQue
\* waits for it.
MutexFree(v) == login[v].pc = "idle"

PostMsgToQue(v, msg) ==
  IF MutexFree(v)
    THEN logicQ' = [logicQ EXCEPT ![v] = Append(@, msg)] /\ UNCHANGED posting
    ELSE posting' = posting \union {msg} /\ UNCHANGED logicQ

\* AsyncReadHead and AsyncReadBody on a whole request: a login as a user, or
\* (NoUser) any other.  A session that is not in _sessions is closed, and that
\* is all: DealExceptionSession is not called.
ReadRequest(s, u) ==
  /\ sock[s] = "up" /\ reading[s] /\ IoFree(s)
  /\ sent[s] < MaxMsgs
  /\ sent' = [sent EXCEPT ![s] = @ + 1]
  /\ IF CheckValid(s)
       THEN /\ heard' = [heard EXCEPT ![s] = "usual"]
            /\ PostMsgToQue(srv[s], <<s, u>>)
            /\ UNCHANGED <<sock, reading>>
       ELSE /\ sock' = [sock EXCEPT ![s] = "closed"]
            /\ reading' = [reading EXCEPT ![s] = FALSE]
            /\ UNCHANGED <<heard, logicQ, posting>>
  /\ UNCHANGED <<srv, userId, queued, writing, sessions, accepted, expired, userMgr,
                 login, deal, rpc, redis, crashes>>

\* PostMsgToQue gets the mutex it has waited for.
PostWaiting(s) ==
  /\ \E msg \in posting : /\ msg[1] = s /\ MutexFree(srv[s])
                         /\ logicQ' = [logicQ EXCEPT ![srv[s]] = Append(@, msg)]
                         /\ posting' = posting \ {msg}
  /\ UNCHANGED <<connection, sessions, accepted, expired, userMgr, login, deal, rpc,
                 redis, crashes>>

\* AsyncReadHead on a header that announces too long a body: the session leaves
\* _sessions and is read no more; its socket stays open.
ReadTooLong(s) ==
  /\ sock[s] = "up" /\ reading[s] /\ IoFree(s)
  /\ sent[s] < MaxMsgs
  /\ CheckValid(s)
  /\ sent' = [sent EXCEPT ![s] = @ + 1]
  /\ reading' = [reading EXCEPT ![s] = FALSE]
  /\ ClearSession(srv[s], s)
  /\ UNCHANGED <<srv, sock, heard, userId, queued, writing, accepted, expired, userMgr,
                 logicQ, posting, login, deal, rpc, redis, crashes>>

\* DealExceptionSession of s begins; _user_id is read here, once.  An uninitialised
\* one names a lock and keys nobody uses: only the Defer's ClearSession is seen then.
Dealing(s) == [pc |-> IF userId[s] = NoUser THEN "clear" ELSE "acquire", s |-> s, u |-> userId[s]]

\* Close(), then DealExceptionSession on the session's thread (the mutated form only
\* closes).
CloseOnly(s) ==
  /\ sock' = [sock EXCEPT ![s] = "closed"]
  /\ UNCHANGED deal

CloseAndDeal(s) ==
  /\ sock' = [sock EXCEPT ![s] = "closed"]
  /\ deal' = [deal EXCEPT ![Io(s)] = Dealing(s)]

\* The pending read completes with an error: the peer is gone, or this side
\* closed the socket.
ReadError(s) ==
  /\ sock[s] \in {"gone", "closed"} /\ reading[s] /\ IoFree(s)
  /\ reading' = [reading EXCEPT ![s] = FALSE]
  /\ CloseAndDeal(s)
  /\ UNCHANGED <<srv, heard, userId, queued, writing, sent, sessions, accepted, expired,
                 userMgr, logicQ, posting, login, rpc, redis, crashes>>

\* HandleWrite: the write is done, be it on a socket closed since or to a peer
\* that is gone.  The mutated form looks whether the queue is empty before the pop.
WriteDoneBeforePop(s) ==
  /\ writing[s] = "started" /\ IoFree(s)
  /\ queued' = [queued EXCEPT ![s] = @ - 1]
  /\ writing' = [writing EXCEPT ![s] = IF queued[s] > 0 THEN NewWrite(s) ELSE "no"]
  /\ UNCHANGED <<srv, sock, reading, heard, userId, sent, server, rpc, redis, crashes>>

WriteDone(s) ==
  /\ writing[s] = "started" /\ IoFree(s)
  /\ queued' = [queued EXCEPT ![s] = @ - 1]
  /\ writing' = [writing EXCEPT ![s] = IF queued[s] > 1 THEN NewWrite(s) ELSE "no"]
  /\ UNCHANGED <<srv, sock, reading, heard, userId, sent, server, rpc, redis, crashes>>

\* HandleWrite with an error: the message stays at the head of the queue.
WriteError(s) ==
  /\ writing[s] # "no" /\ sock[s] \in {"gone", "closed"} /\ IoFree(s)
  /\ writing' = [writing EXCEPT ![s] = "no"]
  /\ CloseAndDeal(s)
  /\ UNCHANGED <<srv, reading, heard, userId, queued, sent, sessions, accepted, expired,
                 userMgr, logicQ, posting, login, rpc, redis, crashes>>
-----------------------------------------------------------------------------
(* CSession::DealExceptionSession, on thread t *)

DealGoesTo(t, pc) == deal' = [deal EXCEPT ![t].pc = pc]
DealKeeps == UNCHANGED <<connection, accepted, expired, userMgr, logicQ, posting, login,
                         rpc, crashes>>

\* acquireLock.  An empty identifier ends in the Defer at once; the mutated form skips
\* the Defer.
DealLockNoDefer(t) ==
  /\ deal[t].pc = "acquire"
  /\ \/ Acquired(t, deal[t].u) /\ DealGoesTo(t, "check")
     \/ NotAcquired /\ DealGoesTo(t, "release")
  /\ DealKeeps /\ UNCHANGED <<sessions, uip, usession, lost>>

DealLock(t) ==
  /\ deal[t].pc = "acquire"
  /\ \/ Acquired(t, deal[t].u) /\ DealGoesTo(t, "check")
     \/ NotAcquired /\ DealGoesTo(t, "clear")
  /\ DealKeeps /\ UNCHANGED <<sessions, uip, usession, lost>>

\* The user's session in Redis is this one.  The mutated form does not look
\* which session it is.
SomeSession(d) == usession[d.u] # NoSession
OwnSession(d)  == usession[d.u] = d.s

DealCheck(t) ==
  /\ deal[t].pc = "check"
  /\ \/ /\ DealGoesTo(t, IF OwnSession(deal[t]) THEN "delSession" ELSE "clear")
        /\ UNCHANGED lost
     \/ /\ OwnSession(deal[t]) /\ Lose("check", deal[t].u)
        /\ DealGoesTo(t, "clear")
  /\ DealKeeps /\ UNCHANGED <<sessions, uip, usession, lock, ident>>

\* Both keys are deleted, each unless its command is lost (the mutated form forgets
\* the second).
DelSession(u) == \/ usession' = [usession EXCEPT ![u] = NoSession] /\ UNCHANGED lost
                 \/ Lose("delSession", u) /\ UNCHANGED usession
DelIp(u)      == \/ uip' = [uip EXCEPT ![u] = NoServer] /\ UNCHANGED lost
                 \/ Lose("delIp", u) /\ UNCHANGED uip

DealDelSessionOnly(t) ==
  /\ deal[t].pc = "delSession"
  /\ DelSession(deal[t].u)
  /\ DealGoesTo(t, "clear")
  /\ DealKeeps /\ UNCHANGED <<sessions, uip, lock, ident>>

DealDelSession(t) ==
  /\ deal[t].pc = "delSession"
  /\ DelSession(deal[t].u)
  /\ DealGoesTo(t, "delIp")
  /\ DealKeeps /\ UNCHANGED <<sessions, uip, lock, ident>>

DealDelIp(t) ==
  /\ deal[t].pc = "delIp"
  /\ DelIp(deal[t].u)
  /\ DealGoesTo(t, "clear")
  /\ DealKeeps /\ UNCHANGED <<sessions, usession, lock, ident>>

\* The Defer: first _sessions, then the lock.
DealClear(t) ==
  /\ deal[t].pc = "clear"
  /\ ClearSession(srv[deal[t].s], deal[t].s)
  /\ IF deal[t].u = NoUser THEN deal' = [deal EXCEPT ![t] = NotDealing]
                           ELSE DealGoesTo(t, "release")
  /\ DealKeeps /\ UNCHANGED redis

DealRelease(t) ==
  /\ deal[t].pc = "release"
  /\ Released(t, deal[t].u)
  /\ deal' = [deal EXCEPT ![t] = NotDealing]
  /\ DealKeeps /\ UNCHANGED <<sessions, uip, usession>>

Deal(t) == \/ DealLock(t) \/ DealCheck(t) \/ DealDelSession(t)
           \/ DealDelIp(t) \/ DealClear(t) \/ DealRelease(t)

\* on_timer copies _sessions; E are the sessions of the copy that it will find silent
\* for too long.  One that never spoke has a timestamp of any value, and may be
\* expired at once, or never.
OnTimer(v, E) ==
  /\ MainFree(v) /\ E # {}
  /\ E \subseteq {s \in sessions[v] : heard[s] # "future"}
  /\ expired' = [expired EXCEPT ![v] = E]
  /\ UNCHANGED <<connection, sessions, accepted, userMgr, logicQ, posting, login, deal, rpc,
                 redis, crashes>>

\* It closes them one after the other (one that was closed since stays so) ...
TimerClose(v, s) ==
  /\ s \in expired[v] /\ sock[s] # "closed"
  /\ sock' = [sock EXCEPT ![s] = "closed"]
  /\ UNCHANGED <<srv, reading, heard, userId, queued, writing, sent, server, rpc, redis,
                 crashes>>

\* ... and then cleans them up one after the other.
TimerDeal(v, s) ==
  /\ s \in expired[v] /\ deal[Main(v)] = NotDealing
  /\ \A r \in expired[v] : sock[r] = "closed"
  /\ expired' = [expired EXCEPT ![v] = @ \ {s}]
  /\ deal' = [deal EXCEPT ![Main(v)] = Dealing(s)]
  /\ UNCHANGED <<connection, sessions, accepted, userMgr, logicQ, posting, login, rpc, redis,
                 crashes>>
-----------------------------------------------------------------------------
(* LogicSystem: one thread handles the requests of all connections of v.   *)
(* A request stays at the head of the queue until it has been answered.    *)

Asking(v)     == Head(logicQ[v])[1]
LoginUser(v)  == Head(logicQ[v])[2]
LoginAt(v, pc) == logicQ[v] # <<>> /\ login[v].pc = pc
LoginGoesTo(v, pc) == login' = [login EXCEPT ![v].pc = pc]
LoginKeeps == UNCHANGED <<srv, sock, reading, heard, sent, posting, accepted, expired, deal,
                          crashes>>

\* The answer, and _msg_que.pop().
Answer(v) == /\ SendTo(Asking(v))
             /\ logicQ' = [logicQ EXCEPT ![v] = Tail(@)]

\* A request answered to its sender alone (heartbeat, searches, lists, ...), and a
\* login whose token or user is refused.  Notifications to other users' sessions
\* are not modelled here.
HandleOther(v) ==
  /\ LoginAt(v, "idle")
  /\ Answer(v)
  /\ LoginKeeps /\ UNCHANGED <<userId, sessions, userMgr, login, rpc, redis>>

\* A request without a handler is not answered.
HandleUnknown(v) ==
  /\ LoginAt(v, "idle") /\ LoginUser(v) = NoUser
  /\ logicQ' = [logicQ EXCEPT ![v] = Tail(@)]
  /\ LoginKeeps /\ UNCHANGED <<userId, queued, writing, sessions, userMgr, login, rpc, redis>>

\* The token is right: acquireLock.  With an empty identifier the handler goes on.
LoginLock(v) ==
  /\ LoginAt(v, "idle") /\ LoginUser(v) # NoUser
  /\ Acquired(Worker(v), LoginUser(v)) \/ NotAcquired
  /\ LoginGoesTo(v, "getIp")
  /\ LoginKeeps /\ UNCHANGED <<userId, queued, writing, sessions, userMgr, logicQ, rpc,
                               uip, usession, lost>>

\* Where the user is logged in, if anywhere, decides how the old login ends; a lost GET
\* is taken for a user who is not.  The mutated form never asks another server.
KickPlaceLocal(v, at) == IF at = v THEN "kickHere" ELSE "setIp"
KickPlace(v, at) == CASE at = NoServer -> "setIp"
                      [] at = v        -> "kickHere"
                      [] OTHER         -> "kickThere"

LoginGetIp(v) ==
  /\ LoginAt(v, "getIp")
  /\ LET at == uip[LoginUser(v)] IN
       \/ /\ login' = [login EXCEPT ![v] = [pc |-> KickPlace(v, at), to |-> at]]
          /\ UNCHANGED lost
       \/ at # NoServer /\ Lose("getIp", LoginUser(v)) /\ LoginGoesTo(v, "setIp")
  /\ LoginKeeps /\ UNCHANGED <<userId, queued, writing, sessions, userMgr, logicQ, rpc,
                               uip, usession, lock, ident>>

\* NotifyOffline and ClearSession on the session UserMgr has for u at v.
Kick(v, u) ==
  LET old == userMgr[v][u] IN
    IF old = NoSession THEN UNCHANGED <<queued, writing, sessions>>
    ELSE SendTo(old) /\ ClearSession(v, old)

LoginKickHere(v) ==
  /\ LoginAt(v, "kickHere")
  /\ Kick(v, LoginUser(v))
  /\ LoginGoesTo(v, "setIp")
  /\ LoginKeeps /\ UNCHANGED <<userId, userMgr, logicQ, rpc, redis>>

\* ChatGrpcClient::NotifyKickUser sends the request and waits ...
LoginKickThere(v) ==
  /\ LoginAt(v, "kickThere")
  /\ kicks' = kicks \union {[from |-> v, to |-> login[v].to, u |-> LoginUser(v)]}
  /\ LoginGoesTo(v, "kickWait")
  /\ LoginKeeps /\ UNCHANGED <<userId, queued, writing, sessions, userMgr, logicQ,
                               kickFailed, redis>>

\* ... until it is served, or the call fails, which the handler does not look at.
LoginKicked(v) ==
  /\ LoginAt(v, "kickWait")
  /\ \/ /\ [from |-> v, to |-> login[v].to, u |-> LoginUser(v)] \notin kicks
        /\ UNCHANGED kickFailed
     \/ KickFails
  /\ login' = [login EXCEPT ![v] = [pc |-> "setIp", to |-> NoServer]]
  /\ LoginKeeps /\ UNCHANGED <<userId, queued, writing, sessions, userMgr, logicQ, kicks,
                               redis>>

\* The two SETs, each unless it is lost.
SetIp(v, u)      == \/ uip' = [uip EXCEPT ![u] = v] /\ UNCHANGED lost
                    \/ uip[u] # v /\ Lose("setIp", u) /\ UNCHANGED uip
SetSession(s, u) == \/ usession' = [usession EXCEPT ![u] = s] /\ UNCHANGED lost
                    \/ Lose("setSession", u) /\ UNCHANGED usession

\* SetUserId, and the server of the user in Redis (IncreaseCount, just before, is
\* about LOGIN_COUNT only).
LoginSetIp(v) ==
  /\ LoginAt(v, "setIp")
  /\ userId' = [userId EXCEPT ![Asking(v)] = LoginUser(v)]
  /\ SetIp(v, LoginUser(v))
  /\ login' = [login EXCEPT ![v] = [pc |-> "setSession", to |-> NoServer]]
  /\ LoginKeeps /\ UNCHANGED <<queued, writing, sessions, userMgr, logicQ, rpc,
                               usession, lock, ident>>

LoginSetSession(v) ==
  /\ LoginAt(v, "setSession")
  /\ SetSession(Asking(v), LoginUser(v))
  /\ LoginGoesTo(v, "setMgr")
  /\ LoginKeeps /\ UNCHANGED <<userId, queued, writing, sessions, userMgr, logicQ, rpc,
                               uip, lock, ident>>

LoginSetMgr(v) ==
  /\ LoginAt(v, "setMgr")
  /\ userMgr' = [userMgr EXCEPT ![v][LoginUser(v)] = Asking(v)]
  /\ LoginGoesTo(v, "release")
  /\ LoginKeeps /\ UNCHANGED <<userId, queued, writing, sessions, logicQ, rpc, redis>>

LoginRelease(v) ==
  /\ LoginAt(v, "release")
  /\ Released(Worker(v), LoginUser(v))
  /\ LoginGoesTo(v, "reply")
  /\ LoginKeeps /\ UNCHANGED <<userId, queued, writing, sessions, userMgr, logicQ, rpc,
                               uip, usession>>

LoginReply(v) ==
  /\ LoginAt(v, "reply")
  /\ Answer(v)
  /\ login' = [login EXCEPT ![v] = AtRest]
  /\ LoginKeeps /\ UNCHANGED <<userId, sessions, userMgr, rpc, redis>>

LoginHandler(v) == \/ LoginLock(v) \/ LoginGetIp(v) \/ LoginKickHere(v) \/ LoginKickThere(v)
                   \/ LoginKicked(v) \/ LoginSetIp(v) \/ LoginSetSession(v)
                   \/ LoginSetMgr(v) \/ LoginRelease(v) \/ LoginReply(v)
-----------------------------------------------------------------------------
(* gRPC, Redis, and the process of a server *)

\* ChatServiceImpl::NotifyKickUser, on a gRPC thread of the callee.
NotifyKickUser(k) ==
  /\ k \in kicks
  /\ Kick(k.to, k.u)
  /\ kicks' = kicks \ {k}
  /\ UNCHANGED <<srv, sock, reading, heard, userId, sent, accepted, expired, userMgr,
                 logicQ, posting, login, deal, kickFailed, redis, crashes>>

\* The request never arrives.
KickLost(k) ==
  /\ k \in kicks /\ KickFails
  /\ kicks' = kicks \ {k}
  /\ UNCHANGED <<connection, server, redis, crashes>>

\* Redis drops the lock of a dead thread or, when sections outlast LOCK_TIME_OUT,
\* of a living one.
LockExpires(u) ==
  /\ lock[u] = DeadId \/ (MayTimeout /\ lock[u] # NoId)
  /\ Locks!Expire({u})
  /\ UNCHANGED <<connection, server, rpc, uip, usession, lost, crashes>>

\* The process of v dies and starts again: its memory and its connections are
\* gone, what it wrote to Redis and the locks its threads held are not.
On(v)      == {s \in Sessions : srv[s] = v}
ThreadsOf(v) == {Main(v), Worker(v)} \union {Io(s) : s \in On(v)}

CrashRestart(v) ==
  /\ Faults < MaxFaults /\ crashes' = crashes + 1
  /\ sock' = [s \in Sessions |-> IF srv[s] = v THEN "closed" ELSE sock[s]]
  /\ reading' = [s \in Sessions |-> srv[s] # v /\ reading[s]]
  /\ writing' = [s \in Sessions |-> IF srv[s] = v THEN "no" ELSE writing[s]]
  /\ queued' = [s \in Sessions |-> IF srv[s] = v THEN 0 ELSE queued[s]]
  /\ sessions' = [sessions EXCEPT ![v] = {}]
  /\ accepted' = [accepted EXCEPT ![v] = NoSession]
  /\ expired' = [expired EXCEPT ![v] = {}]
  /\ userMgr' = [userMgr EXCEPT ![v] = [u \in Users |-> NoSession]]
  /\ logicQ' = [logicQ EXCEPT ![v] = <<>>]
  /\ posting' = {msg \in posting : srv[msg[1]] # v}
  /\ login' = [login EXCEPT ![v] = AtRest]
  /\ deal' = [t \in Dealers |-> IF t \in ThreadsOf(v) THEN NotDealing ELSE deal[t]]
  /\ kicks' = {k \in kicks : k.to # v}
  /\ lock' = [u \in Users |-> IF lock[u] \in ThreadsOf(v) THEN DeadId ELSE lock[u]]
  /\ ident' = [t \in Threads |-> IF t \in ThreadsOf(v) THEN NoId ELSE ident[t]]
  /\ UNCHANGED <<srv, heard, userId, sent, kickFailed, uip, usession, lost>>
-----------------------------------------------------------------------------
Next ==
  \/ \E v \in Servers, s \in Sessions : HandleAccept(v, s) \/ TimerClose(v, s) \/ TimerDeal(v, s)
  \/ \E v \in Servers : \/ InsertSession(v) \/ HandleOther(v) \/ HandleUnknown(v)
                        \/ LoginHandler(v) \/ CrashRestart(v)
  \/ \E v \in Servers, E \in SUBSET Sessions : OnTimer(v, E)
  \/ \E s \in Sessions : \/ PeerGone(s) \/ PostWaiting(s) \/ ReadTooLong(s) \/ ReadError(s)
                         \/ WriteDone(s) \/ WriteError(s)
  \/ \E s \in Sessions, u \in Users \union {NoUser} : ReadRequest(s, u)
  \/ \E t \in Dealers : Deal(t)
  \/ \E k \in kicks : NotifyKickUser(k) \/ KickLost(k)
  \/ \E u \in Users : LockExpires(u)

Spec == Init /\ [][Next]_vars

\* The threads.  Clients are free to be silent or to stay, and nothing need fail;
\* but the timer keeps firing, and a connection whose timestamp no longer moves is
\* found expired unless that timestamp is a value from the future that was never
\* overwritten.
Silent(v) == {s \in sessions[v] : sock[s] = "closed" /\ heard[s] # "future"}

IoThread(s)    == \/ PostWaiting(s) \/ ReadError(s) \/ WriteDone(s) \/ WriteError(s)
                  \/ Deal(Io(s))
LogicThread(v) == HandleOther(v) \/ HandleUnknown(v) \/ LoginHandler(v)
MainThread(v)  == \/ InsertSession(v) \/ OnTimer(v, Silent(v))
                  \/ \E s \in Sessions : TimerClose(v, s) \/ TimerDeal(v, s)
                  \/ Deal(Main(v))

\* Every thread that can run does, dead locks expire, requests arrive.
Fairness == /\ \A s \in Sessions : WF_vars(IoThread(s))
            /\ \A v \in Servers : WF_vars(LogicThread(v)) /\ WF_vars(MainThread(v))
            /\ \A u \in Users : WF_vars(LockExpires(u))
            /\ WF_vars(\E k \in kicks : NotifyKickUser(k))

FairSpec == Spec /\ Fairness
-----------------------------------------------------------------------------
TypeOK ==
  /\ srv \in [Sessions -> Servers \union {NoServer}]
  /\ sock \in [Sessions -> {"new", "up", "gone", "closed"}]
  /\ reading \in [Sessions -> BOOLEAN]
  /\ writing \in [Sessions -> {"no", "started", "doomed"}]
  /\ heard \in [Sessions -> {"usual", "future"}]
  /\ userId \in [Sessions -> Users \union {NoUser}]
  /\ queued \in [Sessions -> Nat] /\ \A s \in Sessions : writing[s] # "no" => queued[s] > 0
  /\ sent \in [Sessions -> 0..MaxMsgs]
  /\ sessions \in [Servers -> SUBSET Sessions]
  /\ accepted \in [Servers -> Sessions \union {NoSession}]
  /\ expired \in [Servers -> SUBSET Sessions]
  /\ userMgr \in [Servers -> [Users -> Sessions \union {NoSession}]]
  /\ logicQ \in [Servers -> Seq(Sessions \X (Users \union {NoUser}))]
  /\ login \in [Servers -> [pc : {"idle", "getIp", "kickHere", "kickThere", "kickWait",
                                  "setIp", "setSession", "setMgr", "release", "reply"},
                            to : Servers \union {NoServer}]]
  /\ posting \subseteq Sessions \X (Users \union {NoUser})
  /\ deal \in [Dealers -> [pc : {"no", "acquire", "check", "delSession", "delIp", "clear",
                                 "release"},
                           s : Sessions \union {NoSession}, u : Users \union {NoUser}]]
  /\ kicks \subseteq [from : Servers, to : Servers, u : Users]
  /\ kickFailed \in BOOLEAN
  /\ uip \in [Users -> Servers \union {NoServer}]
  /\ usession \in [Users -> Sessions \union {NoSession}]
  /\ Locks!TypeOK
  /\ lost \subseteq Commands \X Users
  /\ crashes \in Nat

\* Nobody is inside the section of u, or died there a moment ago.
Quiet(u) == lock[u] = NoId

\* None of the commands C about u was lost.
Answered(C, u) == \A c \in C : <<c, u>> \notin lost

\* One login at a time (README.md:70-96): outside the section, a connection that a
\* server knows as the user's and still accepts requests from is the one Redis
\* names, on the server Redis names.  So it is the only one on all servers.  A
\* kick that failed breaks this, as LoginHandler goes on and two are valid, and so
\* does a lost command of a login, for its user: a GET that is lost kicks nobody.
\* What a clean-up loses does not.  A lock refused or outlasted breaks it too: this
\* and the next properties of presence are about MayTimeout = FALSE.
ValidIsCurrent ==
  \A u \in Users, v \in Servers :
    LET s == userMgr[v][u] IN
      /\ Quiet(u) /\ ~kickFailed /\ Answered({"getIp", "setIp", "setSession"}, u)
      /\ s # NoSession /\ s \in sessions[v]
      => usession[u] = s /\ uip[u] = v

\* The two keys of a user are written and deleted together: outside the section
\* both are absent or they name a connection and its own server.  Only a SET or a
\* DEL of the user that is lost leaves one without the other; a GET may be.
PresencePaired ==
  \A u \in Users :
    /\ Quiet(u) /\ crashes = 0
    /\ Answered({"setIp", "setSession", "delSession", "delIp"}, u)
    => uip[u] = IF usession[u] = NoSession THEN NoServer ELSE srv[usession[u]]

\* A connection that ends leaves a newer login's entry alone (csession.cc:236-240,
\* README.md:76).
NewerLoginKept ==
  [][\A u \in Users : usession[u] # NoSession /\ usession'[u] = NoSession =>
       \E t \in Dealers : deal[t].pc = "delSession" /\ deal[t].s = usession[u]]_vars

\* The table of connections does not keep dead ones for ever, whatever fails in
\* the clean-up, unless a garbage timestamp hides them from the timer.
DeadLeavesTable ==
  \A s \in Sessions :
    sock[s] = "closed" /\ heard[s] # "future" ~> srv[s] = NoServer \/ s \notin sessions[srv[s]]

\* Nothing is under way: no callback pending, no thread busy, no message queued.
Settled ==
  /\ \A s \in Sessions : writing[s] = "no" /\ (reading[s] => sock[s] = "up")
  /\ \A v \in Servers : logicQ[v] = <<>> /\ accepted[v] = NoSession /\ expired[v] = {}
  /\ \A t \in Dealers : deal[t] = NotDealing
  /\ kicks = {} /\ posting = {}

\* A broken connection does not stay the user's presence, whichever callback finds
\* it broken and whenever (README.md:116-117): once all is settled, the connection
\* Redis names is open, and it is the one a message for the user goes to.  It is
\* also in the table, unless a kick that nobody waited for any more came late and
\* threw the newer login out.  That is so of a connection whose login was its only
\* request: a second one can leave the presence behind (ClosedIsOffline), or throw
\* the connection itself out (a login again finds itself in UserMgr and kicks itself).
\* And it is so unless a command about usession_ was lost for the user: a clean-up that
\* reads or deletes nothing leaves it, a login that writes nothing leaves the old one.
PresenceSettles ==
  \A u \in Users :
    LET s == usession[u] IN
      /\ Settled /\ crashes = 0 /\ Answered({"setSession", "check", "delSession"}, u)
      /\ s # NoSession /\ sent[s] = 1
      =>
        /\ sock[s] = "up" /\ userMgr[srv[s]][u] = s
        /\ ~kickFailed => s \in sessions[srv[s]]

\* The same of any connection this side has closed: all error handlers end with
\* the clean-up (README.md:117), so what is recorded as online is not closed.
ClosedIsOffline ==
  \A u \in Users : LET s == usession[u] IN
    Settled /\ crashes = 0 /\ s # NoSession => sock[s] # "closed"
=============================================================================
