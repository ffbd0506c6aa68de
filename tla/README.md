# A formal model of CChat_server

TLA+ modules, TLC runs and machine-checked proofs about the servers in this
repository. Source paths are relative to the repository (`src/` in
`PROJECT.json`); "README.md:77" is a line of the repository's own README, not of
this file. `PROJECT.json` maps every definition that models code to its lines.

## 1. The system

Four kinds of server and three stores.

| part | where | state it keeps | operations |
|---|---|---|---|
| GateServer (HTTP) | `GateServer/src` | none of its own | `/get_verifycode`, `/register`, `/reset_pwd`, `/login` |
| VerifyServer (node, gRPC) | `VerifyServer` | codes in Redis, 3 min | `GetVerifyCode` |
| StatusServer (gRPC) | `StatusServer/src` | tokens and login counts in Redis | `GetChatServer`, `Login` |
| ChatServer (TCP + gRPC), several | `ChatServer/src` | `CServer::_sessions`, `UserMgr::_uid_to_session`, one `CSession` per connection, `LogicSystem::_msg_que` | accept, read, write, heartbeat timer, nine request handlers, gRPC `Notify*` |
| Redis | `Common/src/redis_mgr.cc`, `dist_lock.cc` | `uip_<uid>`, `usession_<uid>`, `lock:lock_<uid>`, `utoken_<uid>`, `logincount`, caches | commands, distributed lock, connection pool |
| MySQL | `Common/src/mysql_dao.cc` | users, friends, applications, threads, messages | transactions, connection pool |

**How they interact.** A client logs in at GateServer, which asks StatusServer
for a ChatServer and a token (Redis `utoken_`). The client connects to that
ChatServer and sends a login; the handler checks the token, takes the user's
distributed lock, kicks an older login (on this server through `UserMgr`, on
another by gRPC `NotifyKickUser`), and records where the user is in Redis and in
`UserMgr`. When a connection ends, whichever thread notices removes it from
`_sessions` and, under the same lock and only if Redis still names this
connection, deletes the user's keys.

**Threads of a ChatServer.** The main io_context accepts connections and runs the
60 s heartbeat timer. A pool of io_contexts with one thread each runs the
callbacks of the connections. One logic thread runs the handlers, holding the
queue's mutex while it does. gRPC threads serve other servers. `Send` and
`ClearSession` are called from all of them.

**What is hard.** The same session is touched by four kinds of thread and by
other servers; the only thing that orders a login against the end of an older
connection is a lock with a time-out whose result is not always tested; callbacks
of a connection arrive after it was closed, kicked or cleaned up; the state is
spread over Redis, two tables and a field of the session. MySQL connections are
shared through a pool and come back from a transaction with autocommit off, so a
later user of the same connection reads an old snapshot and leaves its writes
uncommitted. `PROJECT.json`
("hazards") lists what can go wrong, each at its line.

What makes each part correct:

* lock: exclusion while a lease lasts, no theft, no orphan, `acquireLock` returns;
* connections and presence: outside a user's lock the four records of where the
  user is agree; an old connection's end leaves a newer login alone; nothing
  about a broken connection stays (all this as far as Redis answers, see section 3);
* send queue: accepted messages are written in order, one `async_write` at a time;
* request queue: no lost wake-up, order of arrival, everything is served;
* pools: no connection is lost for good, no waiter is forgotten, no circular wait;
* accounts: an answered registration stays, and its uid and mail are its own;
* friends and chats: one private chat per pair, acceptances stored whole, whoever is
  told of something finds it stored;
* login counts: they follow the connections there are, and a server that stays and
  whose count can be read is found;
* a handler that waits for a row lock or a pooled connection comes back with an answer,
  once these waits end. A call to another server has no deadline: a handler answers
  only if that call returns.

## 2. The modules

| module | what it is | code |
|---|---|---|
| `LockService` | what a lock promises, without time | `dist_lock.cc`, `RedisMgr::acquireLock/releaseLock` |
| `DistLock` | the lock as written: retry loop, expiry, lost answers, dead callers; implements `LockService` | same |
| `ChatLogin` | connections, tables, clean-up, timer, login, kicks, Redis keys, restarts; its per-user lock is an instance of `LockService` | `csession.cc`, `cserver.cc`, `user_mgr.cc`, `LoginHandler`, `NotifyKickUser` on both sides |
| `Channel` | what `Send` promises: an ordered channel that may break | `CSession::Send` |
| `SendQueue` | `Send`, `HandleWrite`, `Close` on `_send_que`; implements `Channel` | `csession.cc:44-77, 187-211` |
| `LogicQueue` | `PostMsgToQue`, `DelMsg`, the destructor, with the condition variable | `logic_system.cc:26-103` |
| `ConnPool` | the four connection pools, with the check threads, outages and `Close` | `redis_mgr.cc:13-190`, `mysql_dao.cc:14-159`, the `RpcConnPool` templates of GateServer and ChatServer |
| `MySqlSession` | what a pooled MySQL connection remembers between two users | how `MysqlDao` uses `setAutoCommit`, `commit`, `rollback` |
| `Accounts` | GateServer's POST handlers, the registration and password operations, the verification code | `GateServer/src/logicsystem.cc`, `mysql_dao.cc`, `VerifyServer` |
| `LoginCount` | the counting of logins and StatusServer's choice | `InitCount`, `IncreaseCount`, `on_timer`, `main.cc`, `getChatServer` |
| `Friends` | applications, acceptances, private chats, lists, texts, notifications on several servers | `logic_system.cc`, `mysql_dao.cc`, `grpc_client.cc`, `grpc_chat_service_impl.cc` |
| `SingleLogin` | what the ChatServers promise together: a user has one accepted connection or none | `LoginHandler`, `DealExceptionSession` |
| `...Proofs` | theorems and lemmas about the module they are named after | |
| `MCChatLogin`, `MCAccounts`, `MCFriends` | symmetry, requests and placements for TLC | |

`ChatLogin` instantiates `LockService`; `DistLock` is shown to implement it; so
the login protocol is checked against the lock's promise, and the promise against the
lock. `ChatLogin` in turn implements `SingleLogin` (section 5). `Accounts` and `Friends` extend `MySqlSession`. The other modules share no
variables: a handler of `Friends` is one request of `LogicQueue`, its answers and
notifications are `Send`s of `SendQueue`, its connections come from `ConnPool`.

### DistLock

`lock` and `ttl` are the Redis key and its time to live, `pc`, `key`, `id`, `left`
a caller's place in `acquireLock`, its lock name, identifier and the time to
`endTime`. `lease` is a history variable: what remains of LOCK_TIME_OUT since the
caller's SET. `Tick` is a unit of time on all clocks. `SetReplyLost` and
`SetNotSent` are `redisCommand` returning `nullptr`, after which hiredis refuses
every later command on that connection, so the loop only waits. `Lost` is a release
without a connection or the death of the process.

### ChatLogin

Every handler is split at the points where another thread can see its state:
each Redis command, each lock operation, each `Send`, the two halves of
`HandleAccept`. Correspondence:

* `HandleAccept` + `InsertSession`: `CServer::HandleAccept`, which calls `Start()`
  before it inserts;
* `ReadRequest`, `ReadTooLong`, `ReadError`: the callbacks of `AsyncReadHead` and
  `AsyncReadBody` (a whole request is one step, its two `CheckValid` tests one);
* `SendTo`, `WriteDone`, `WriteError`: `Send` and `HandleWrite`; only the number of
  queued messages matters here. `SendQueue` models the queue itself;
* `Deal...`: `DealExceptionSession`, on the connection's thread or the timer's;
* `OnTimer`, `TimerClose`, `TimerDeal`: `on_timer` copies the table and closes the
  expired sessions one after the other, then cleans them up one after the other;
* `Login...`, `HandleOther`, `HandleUnknown`, `PostWaiting`: `LoginHandler` on the
  logic thread, all other requests, and io threads that wait for the queue's mutex meanwhile;
* `NotifyKickUser`, `KickLost`, `LockExpires`, `CrashRestart`: gRPC, Redis, and the
  process.

An identifier is only compared, so the name of the thread that holds the lock
stands for it; `DeadId` is the identifier of a thread that died. `Garbage` and
`FirstBeat` are the values the uninitialised `_user_id` and `_last_heartbeat` can
hold as far as a property can tell; one that names no user (`NoUser`) names a lock and
keys nobody uses, so of its clean-up only `ClearSession` is a step (`Dealing`).

`RedisMgr::Get`, `Set`, `Del` and `releaseLock` return false, and `HGet` an empty
string, when the pool has no connection or the reply does not come, and nobody who calls
them stops on it, except the clean-up on a GET. So each of these commands may be lost
(`Lose`): a lost GET of `uip_` reads as "not logged in" and kicks nobody
(`LoginGetIp`), a lost GET of `usession_` ends the clean-up (`DealCheck`), a lost SET
or DEL leaves the key as it was (`SetIp`, `SetSession`, `DelSession`, `DelIp`), a lost
release leaves the lock to its expiry (`Released`). A command whose reply alone is lost is a
lost GET, or a SET or DEL that is done. `acquireLock` fails by `NotAcquired`.
`lost` is a history of which command about which user was lost, as far as it changed
what happens next; `kickFailed` is the same for kicks. `MaxFaults` bounds restarts, lost
commands and failed kicks together.

Each session has a thread of its own; in the code sessions share the threads of a
pool, which allows fewer interleavings. Left out: the token check and the user's
record in a login, notifications to sessions of other users (in `Friends`),
`LOGIN_COUNT` (in `LoginCount`), the content of requests.

### SendQueue and LogicQueue

In `SendQueue`, `Send` and the successful `HandleWrite` hold `_send_lock` and are
one step each; `inflight` lists the `async_write`s under way, so that two of them
would be visible. `pushed` and `wire` are histories.

In `LogicQueue`, the worker holds the mutex from the wake-up to the end of an
iteration, handlers included; a poster's notify is a separate step after its
unlock; the destructor takes no mutex. A request is of a kind: its id has a
handler, has none, or has one that throws. `SetStop` is taken when no poster is
active, because `main` stops the io threads before the singletons are destroyed.
`_b_stop` is a plain `bool`: the model takes its store and loads as atomic and at
any time.

### ConnPool

One module for the pools, because they share `getConnection` and
`returnConnection`; `kind` says which one it is and selects what differs. `free` is
`_conns`, `held` what each user has, `chk` the check thread: where it is in its
round, how many connections are left to pop, which one it probes. `fail` is
`_fail_count`, `stop` is `_b_stop`; ChatServer's `RpcConnPool` does not initialise
its flag, so there it starts with either value. The only critical section of more
than one step is `getConnection` between its predicate and its sleep
(`FindEmpty`, `Sleep`), because `Close` of the Redis and MySQL pools comes between
them: it takes no mutex.

What differs: MySQL's constructor gives up at the first error and then starts no
check thread; the Redis round reconnects only after a PING that was answered
(`continue` at `redis_mgr.cc:87`) and wakes a waiter; MySQL's round reconnects at
its end, pushes without a notify, and drops a connection that was used less than
five seconds before (`ForgetRecent`, `mysql_dao.cc:77`). `Outage`, `Recover` and
`Drop` are the server's. A reconnect of Redis may fail though the server is up
(`EndReconnect`): it sends AUTH even with an empty password, which the constructor does
not (`redis_mgr.cc:26`, `:134`), and it takes the host and the password from pointers into
strings of the constructor of `RedisMgr` that are destroyed (`redis_mgr.h:30-32`,
`redis_mgr.cc:192-202`), so that they hold anything. It does not test its reply for
null either (`:135`): that ends the process and is not modelled.

### Accounts

`at` and `req` are a handler and its request; `conn` the connection a transaction
keeps; `rows`, `lastId`, `idLock` the tables `user` and `user_id` and the row lock
of the latter. A registration is four steps: `CheckCode` (Redis), `RegSelect`
(autocommit off, the snapshot is opened, name and mail looked up in it),
`RegUpdate` (the row lock and the next uid), `RegInsert` or `RegDuplicate` (the
unique keys, then commit or rollback, which also frees the row lock). `CheckEmail`, `UpdatePwd` and `CheckPwd` run
on any idle connection and read that connection's snapshot. The code is replaced
by every request because `GetRedis` throws on a name that is not defined
(`redis.js:39`) and so never finds the old one. `told` is a history.

### LoginCount

A server is "init" while `InitCount` holds the lock, "serving", then "closing"
between the `HDel` of its exit and the close of Redis. `worker` is the logic
thread inside `IncreaseCount`: read, then write, under `LOCK_COUNT` or, because the
identifier is not looked at, without it. `timer` is the number `on_timer` has
counted and is about to write, without the lock. `scan` is `getChatServer`: how
far it is, the smallest count so far and whose; `scan.stayed` is a history of the
servers whose field was there during the whole scan and could be read. Every `HGet`,
`HSet`, `HDel`, lock and release may fail: a count that cannot be read is INT_MAX for
`getChatServer` and 0 for `IncreaseCount`.

### Friends

`job` is what each server's logic thread does: its step, request, connection and
attempt. `apply`, `friend`, `priv` are the tables `friend_apply`, `friend`,
`private_chat` (with `chat_thread`'s counter in `lastThread`); `pending` the
applications that a connection has locked and not committed; `where` is `uip_`.
Steps are statements with the locks they take: `ApplyInsert`; for `AddFriend`,
`AuthUpdate` (the status, with the SELECT after it), `AcceptThread` (both friend rows
and the new thread), `AcceptCommit` (the private chat and the commit); for
`CreatePrivateChat`, `ChatSelect` and `ChatInsert`. `TryAgain` is a retry of either. A wait for a row lock may
time out at any moment. `Locate` and `Notify...` are the lookup of the other user and
the notification, here or on another server; `Move` lets the user come or go between
the two. `Replace` is the pool replacing a connection, which undoes what that
connection had not committed. `told` and `notified` are histories. `Page` is the
paging of `GetUserThreads`.

## 3. The runs

| run | asks | bounds | distinct states |
|---|---|---|---|
| `dist_lock` | exclusion within leases, no theft, refinement of `LockService`, no orphan key, `acquireLock` returns | 2 callers, 2 keys, 4 identifiers, lock 3 / acquire 1 units | 135 520 |
| `login_safe` | agreement of the records of presence, clean-up, newer login kept | 2 servers, 2 connections, 1 user, 1 request each, 1 fault: a restart, a kind of Redis command lost from then on or now and then, or kicks that fail | 2 007 460 |
| `login_faults` | dead connections leave the table | 1 server, 1 connection, 1 user, 2 requests, the same faults, locks not granted or expiring, garbage in the uninitialised fields | 527 017 |
| `send_queue` | order, one write, no stall, refinement of `Channel` | limit 2, 5 messages | 838 |
| `logic_queue` | no lost wake-up, order, service | 2 posters, 3 kinds of request, 4 posts | 5 347 |
| `pools` | nothing lost or twice, no forgotten waiter, when all wait, recovery | 3 users (1 nested), 2 connections, 3 kinds | 97 013 |
| `accounts` | registrations stay and are unique, uids are free, every request returns | 2 handlers, 2 connections, 6 forms over 2 names, mails and passwords, 1 code per mail | 121 311 |
| `login_count` | a server that stays is found, counts settle | 2 servers, at most 2 connections each, 2 connects or logins, any command failing | 253 924 |
| `friends` | one chat per pair, acceptances whole, every request returns | 2 servers with 2 and 1 connections, 2 users, 7 requests, page 1, 2 attempts, 3 threads | 219 232 |
| `login_stale` | a closed connection is not recorded as online: violated | 1 server, 1 connection, 2 requests | |
| `logic_queue_drain` | stopping handles what is queued: violated | 2 posters, 3 posts | |
| `apply_lost` | who is notified of an application finds it stored: violated | as `friends` | |

**Why the bounds are enough.**

* `dist_lock`: a key has a holder and a caller that waits or whose lease is over;
  four identifiers leave a fresh one while both keys and both callers have one. Lock
  time 3 and acquire time 1 keep LOCK_TIME_OUT > ACQUIRE_TIME_OUT and allow a key
  to expire during an attempt.
* `login_...`: a login meets at most one older login, here or on another server:
  two servers, two connections. One request per connection gives its whole life; the
  run with one connection adds a second login on it. The
  properties of `login_safe` are about the granted lock, so locks are always granted
  there; `login_faults` has the rest. `Lose` counts a command once for each user, so one
  fault is any number of losses of one command, and the theorems of section 5 are about
  any faults in any number. Two faults at once are beyond five minutes of TLC.
* `send_queue`: a queue of 2 has the cases empty, alone, followed, full.
* `logic_queue`: two posters are enough for one to push while the other is between
  its unlock and its notify; four posts let the queue be emptied and filled again
  meanwhile, and the destructor find requests of every kind.
* `pools`: three users and two connections: one holds, one sleeps, one is between its
  predicate and its sleep; one `GetFriendList` can hold one connection and wait for the
  other.
* `accounts`: two registrations at once that share the name, the mail or nothing,
  while each connection's snapshot is older or newer than the other's commit.
* `login_count`: during a scan of two servers one may stay while the other comes,
  goes or crashes; two events let the timer count a connection, be
  overtaken by its login and count again.
* `friends`: the chat of two users can be created by both acceptances and by a
  `CreatePrivateChat` at once, on three connections. The server with two connections gives a
  retry a second snapshot. One row per page makes every list more than one page;
  `MCFriends` also checks `Page` alone over all sets of up to five ids, three sizes
  and all starting points (`PagesMeet`).

Deadlock is checked except where the system really stops: all connections closed
(`ChatLogin`), all messages sent (`SendQueue`), the worker joined (`LogicQueue`).

**Fairness.** `DistLock`: time passes and a caller inside `acquireLock` is
scheduled; nothing obliges it to release, nor Redis to answer. `ChatLogin`: every
io, logic and main thread that can run does, the timer keeps firing, locks of the
dead expire, requests arrive; no client need do anything. `SendQueue`: an
`async_write` completes, well or badly. `LogicQueue`: the worker, the notifies and
the destructor run; nobody need post and no wake-up need be spurious. `ConnPool`: a
user returns what it took, one that is awake gets the mutex in its turn, and the check
thread comes round (strong fairness: others may take the mutex between two tries).
`Accounts`: a handler goes on, and gets a connection or the row lock some time
if these become free again and again. `Friends`: each logic thread
goes on (weak fairness is enough: a wait for a row lock can always time out).
`LoginCount`: the timer and the logic thread of a server that runs go on, and if the
timer can write again and again, some day a write reaches Redis (strong fairness of
`Written`: the timer comes every minute for ever, and a Redis that never answers
again cannot be told anything); nothing obliges StatusServer or a client.

**What the properties say.** In `login_safe` all but `TypeOK` and `NewerLoginKept` have exceptions,
each as small as the code allows. They are stated for each user by the commands about this
user that were lost (`Answered`), for a lock that is granted and not outlasted.

| property | is not promised after | because |
|---|---|---|
| `ValidIsCurrent` | a kick that failed; a lost GET of `uip_` or SET in one of the user's logins | the handler looks at no result: nobody is kicked, two connections are accepted; or Redis names another than the accepted one |
| `PresencePaired` | a restart; a lost SET or DEL about the user | one key stays without the other |
| `PresenceSettles` | a restart; a lost SET of `usession_`, GET or DEL of it in a clean-up | the clean-up returns (`csession.cc:232`) or deletes nothing, or Redis goes on naming the older connection |
| `NewerLoginKept` | | |

What is lost in a clean-up does not make two connections valid, and a failed kick or a
lost GET of `uip_` does not separate the keys. A restart leaves the keys of the
dead server in Redis until the user's next login. For the keys nothing repairs the loss
either before then. `DeadLeavesTable` holds whatever fails.

`PresenceSettles` is about connections whose login was their only request;
`login_stale` shows why. After a failed kick it says nothing of the table of sessions:
with three connections of one user, a kick whose caller gave up may arrive when
the caller's own login is complete, and throw that newer login out of `_sessions`
while Redis and `UserMgr` go on naming it. Two connections do not reach that; trying
to prove the stronger property did.

In `pools`, `Accounted` is an equality for the Redis and gRPC pools and a bound for
MySQL's, whose check thread may drop connections; `NoLostWakeup` leaves MySQL out,
whose reconnect does not notify, and `SleepersMeetFree` says what makes up for it.
After `Close`, at most one user sleeps on: the one that was past its predicate.
`StuckOnlyIfNested` names the only way all users can wait for each other:
`GetFriendList`, which asks for a second connection for each friend's record.
`FailedAreRetried` says that MySQL's pool, while its server is up, replaces in the end what
failed, and that Redis's tries again: no more, since its reconnect can fail for ever (above).
Of the Redis pool it asks that some connection is idle and answers: without one it never
tries again.

In `login_count`, `SomeServerFound` is about servers whose field stayed and could be read:
a read that fails counts as INT_MAX (`status_service_impl.cc:103-108`), so a scan of which all
reads fail answers with the empty server, which no document rules out.

`RequestsReturn` of `Friends` stops at the bound on threads; `OneChatPerPair`
covers the answers (`told`) as well as the table, because a `CreatePrivateChat` may answer
from a snapshot.

## 4. What disagrees with the documents

Shown by a run:

* `login_stale`: README.md:116-117 has every error lead to a clean-up. A login that
  is handled after its connection was cleaned up registers a dead session, and
  no callback is left to notice.
* `logic_queue_drain`: the loop that should handle all requests left
  (`logic_system.cc:63`) calls the handler of the first one for ever.
* `apply_lost`: `logic_system.cc:576` says the database is updated first. The INSERT
  may run on a connection whose autocommit is off, is then undone with it, and
  the recipient has been told.

Read from the code while modelling, and part of the models:

* README.md:70-96 has one login at a time. Where Redis does not answer the GET of `uip_`
  (`logic_system.cc:477`) the handler goes on as if nobody were logged in, and two are.
* README.md:39 promises one process at a time in a lock's section. A caller that ignores
  an empty identifier (`LoginHandler`, the `LOGIN_COUNT` operations), or outlasts
  its lease (there is no watchdog, README.md:65), is inside together with another;
  `LeaseMutex` says what exclusion is left.
* README.md:77 sets the user's session to empty on exit; `RmvUserSession` is never
  called.
* `common.h:51` bounds the send queue by MAX_SENDQUE; `csession.cc:48` compares with
  `>` before the push, so it reaches MAX_SENDQUE + 1.
* `redis_mgr.cc:117` leaves a failed reconnect to the next round; a pool that has emptied
  has no next attempt, and with a server without a password every attempt is refused.
* README.md:149 has LOGIN_COUNT updated under the distributed lock; `cserver.cc:81`
  writes it without.
* `logic_system.cc:589` reads the configuration key `Name`, which is called `name`:
  an application to a user on the same server goes to a server without a name, and
  nobody is notified (the comments at 594 and 597 say otherwise).
* README.md:392-393 takes a row lock by `FOR UPDATE` when a chat is looked for; the
  SELECT of `CreatePrivateChat` is a plain one. The unique key and the retry keep
  `OneChatPerPair` all the same.
* README.md:397-401 stores a chat message; `logic_system.cc:782` leaves that to do.
* `table.sql` has no unique key on a user's name: two registrations at once, or one
  that reads an old snapshot, make two users of one name. The columns `descs` and
  `bakname` that the statements use are not in it.
* `redis.js:39` uses a name that is not defined, so a code is never reused.

## 5. The proofs

TLAPS proves, for all values of the constants that meet the named assumptions
(`ParameterAssumption`, `NullAssumption`; `NoIdAssumption`, `TimeAssumption`; `LimitAssumption`; `KindsAssumption`,
`MaxPostsAssumption`; `PoolAssumption`; `AccountsAssumption`; `CountAssumption`;
`FriendsAssumption`):

* **ChatLoginProofs.** For any number of servers, users, connections, requests and
  restarts, and whatever fails: `TypeOK`, and `Here` (`MetAtHome`), that a connection
  is met only on the server that accepted it and what is cleaned up is closed.
  `TypeOK` is inductive with `Busy` (a handler past the lock has a login at the head of
  its queue) and `Dealt` (a clean-up past the lock is of a user).
  Everything else is proved from `~MayTimeout`: the lock is granted and not outlasted,
  as in `login_safe`. Without it `ValidIsCurrent` is false, since `LoginHandler` goes on
  without the lock. Kicks may still be lost, late or fail, any number of Redis commands be
  lost, and servers restart; the exceptions are those of the properties (section 3).

  The invariant is `Presence`: `LockHeld` makes whoever is inside a user's
  section, a login or a clean-up, the holder of the lock, so there is one
  (`SectionsExclude`). That is what lets it keep from one step to the next what it has read
  or written: `LoginStage` (Redis holds what the handler wrote so far), `DealStage`
  (a clean-up that deletes has found its own connection in Redis) and
  `KickStage` (between the end of the kick and the write of `UserMgr` no connection of the user is
  valid anywhere). `Current` and `Paired` are the two properties, weakened by who
  is inside the section at which step. From it: `ValidIsCurrent`, `PresencePaired`,
  `NewerLoginKept` and `NeverTwoValid`, which unlike `ValidIsCurrent` holds inside the
  section too. `Implementation`: in every behaviour in which no kick fails and no GET or
  SET of a login is lost (`[]NoneFailed`), whatever clean-ups lose and however servers
  restart, the servers implement `SingleLogin`, under the mapping that shows a user's
  valid connection. The last write of a login is `Enter` (or nothing, if the connection
  has ended meanwhile), a kick, a clean-up or a restart is `Leave`, all else stutters.

  `PresenceAlive` needs a second invariant, `Settling`, of executions without a restart,
  whose parts about a user hold as long as no command about `usession_` was lost:
  a connection of one request has it in one place only (`OneRequest`), Redis and
  `UserMgr` know it for that one login only (`KnownOnce`), it is read until it is closed
  (`Reads`), it is in the table until the next login throws it out (`AskingInTable`,
  `CurrentInTable`), `UserMgr` names what Redis names or is about to (`MgrKnows`), and,
  the heart of it, whenever it is not open one of five things is
  bound to bring its clean-up (`CleanUpComes`): a read that will fail, a clean-up on
  the way on its own thread or the timer's, its place in the timer's list, a failed
  write, a reply still to be sent. When all is settled none of them is left.
* **DistLockProofs.** `KeysMatchLeases` together with `TypeOK` is inductive. It is
  needed because `LeaseMutex` alone says nothing of the key: two leases exclude each other
  only because each forces the key to hold its caller's identifier, identifiers are
  unique, and a key's time to live equals what is left of the lease. From it follow
  `LeaseExclusion`, `HolderReleases`, and `Implementation`: under the mapping that
  forgets time and shows an identifier once `acquireLock` has returned it, every
  step is a step of `LockService` or a stutter.
* **SendQueueProofs.** The inductive invariant `QueueInv` is the conjunction of
  `TypeOK`, `OneWrite`, `QueueIsServed` and `InOrder`. None of the last three is
  inductive alone: the pop in `HandleWrite` removes what was written only because
  the one write in flight is of the queue's head, and a `Send` that finds the queue
  empty starts the only write because a non-empty queue is already being written.
  `Implementation` then maps the queue to `Channel`.
* **LogicQueueProofs.** The invariant strengthens `NoLostWakeup` to every place of
  the worker before sleep: if it is about to sleep, the queue was empty and nobody
  could post (it holds the mutex); a queue that became non-empty while it sleeps
  has a poster at its notify.
* **ConnPoolProofs.** `OnePlace` is inductive with `TypeOK` and the fact that the check
  thread has a connection exactly while it probes. From it the three places are
  disjoint, so the connections there are can be counted step by step (`Accounted`).
  `WaitInv` adds to `NoLostWakeup` that a sleeper has asked and that only one user
  is between predicate and sleep, because it holds the mutex. `StuckWhen` maps
  each held connection to the `GetFriendList` that holds it: an injection, since a
  sleeper of that kind holds at most one.
* **AccountsProofs.** `LockInv`: between the update and the insert a handler holds the
  row lock, and the uid it drew is the counter and above every row; so a uid is
  free when it is inserted, and the unique keys do the rest, whatever snapshots
  were read.
* **LoginCountProofs.** `ScanInv`: a server that has stayed and was passed by the
  scan, which could read it, has left a best choice; it does not matter how the counts
  change nor what else fails.
* **FriendsProofs.** `ChatInv` is `OneChatPerPair`, that thread ids in use or drawn
  are below the counter and not shared (`IdsAreFresh`), and that every snapshot
  agrees with the table on the chats it has (`ViewsAgree`: chats are never removed).
  `AcceptInv` says what an acceptance has stored at each of its steps, and that only
  a finished one is announced.

The facts about head, tail and append that the proofs about queues share stand at the
beginning of their modules.

Only model-checked: all liveness
(`NoOrphanLock`, `AcquireReturns`, `DeadLeavesTable`, `AcceptedIsWritten`,
`RequestsServed`, `SleepersMeetFree`, `FailedAreRetried`, `CountSettles`, both
`RequestsReturn`), which with fairness and ENABLED is outside the proof system's
reach; paging, over bounded inputs; the violated properties. No module uses a recursive
operator; what a recursion computes for every input could not be proved here,
because that takes induction over data.

## 6. Not modelled, and what is left

* Tokens (`insertToken`, `Login`): one Redis key written and compared.
* The records of users (`GetBaseInfo`, `GetUserByUid`, `GetUserByName`, `SearchUser`):
  they read data that no operation changes except the password.
* The ids of messages and the paging of `LoadChatMsg`. The only messages ever stored
  are the up to two an acceptance begins a chat with (`mysql_dao.cc:688`), in its
  transaction.
* Framing and lengths: a reply of 32768 bytes or more would have a negative length
  (`csession.cc:70`); the models have no bytes.
* Operations without a caller: `RegUser`, the DAO's `AuthFriendApply`, `LPush`,
  `LPop`, `RPush`, `RPop`, `DecreaseCount`, `DelCount`.
* The shutdown of `AsioIOServicePool`, and destructors that run when no user is left.
* Deadlines of calls between servers: there are none in the code. `Accounts` takes the
  call of StatusServer's `GetChatServer`, and `Friends` its notifications, as steps that
  come back, well or badly.
* The failure of Redis commands in `Accounts` and `Friends`: a code that cannot be read is
  a refused request, a `uip_` that cannot be read a user who is not there; both are
  outcomes the modules have.
* HTTP and JSON parsing, the timeout of an HTTP connection, mail, logging,
  configuration, generated gRPC and protobuf code: pure input and output, or state
  that no step of another component depends on.

Left to do: `Friends` on top of `ChatLogin`, so that a notification meets a
connection that is being closed; the framing with 16-bit lengths; what is left of
one login at a time when a lock is refused or outlasted.
