------------------------------ MODULE Friends ------------------------------
(***************************************************************************)
(* Friends and chats: the handlers AddFriendApply, AuthFriendApply,        *)
(* CreatePrivateChat, DealChatTextMsg and the lists on the logic threads   *)
(* of the ChatServers, the MysqlDao transactions they run on their         *)
(* server's connections, and the notification of the other user, through   *)
(* UserMgr or another server's gRPC service.                               *)
(* One step is one statement of the database with the locks it takes, or   *)
(* one lookup.  A lock wait may end in a timeout at any moment.  GetBaseInfo *)
(* answers from Redis, where a login has put the record.                   *)
(***************************************************************************)
EXTENDS Naturals, FiniteSets, MySqlSession

CONSTANTS Servers,      \* ChatServers, each with one logic thread
          Pool,         \* the MySQL connections of each server
          Uids,
          Home,         \* where each user is logged in at first, or None
          Moves,        \* their logins and exits: <<user, server or None>>
          Stored0,      \* the applications stored at first
          Requests,     \* what the clients may ask: [op, from, to]
          PageSize,     \* rows of a page
          MaxRetry,     \* MAX_RETRY
          MaxThreads,   \* bound: rows ever inserted in chat_thread
          None

ASSUME FriendsAssumption ==
  /\ Uids \subseteq Nat /\ Moves \subseteq Uids \X (Servers \cup {None}) /\ Stored0 \subseteq Uids \X Uids
  /\ Home \in [Uids -> Servers \cup {None}]
  /\ None \notin Servers \cup Conns
  /\ Pool \in [Servers -> SUBSET Conns] /\ PageSize \in Nat \ {0} /\ MaxRetry \in Nat \ {0}
  /\ Requests \subseteq [op : {"apply", "auth", "chat", "list", "load", "text"},
                     from : Uids, to : Uids]

VARIABLES apply,      \* friend_apply: "none", "new" (status 0) or "done" (status 1)
          friend,     \* table friend: pairs <<self_id, friend_id>>
          priv,       \* private_chat: the thread of two users, 0 if none
          lastThread, \* AUTO_INCREMENT of chat_thread
          pending,    \* friend_apply rows that a connection has locked and not committed
          job,        \* what each logic thread is doing
          where,      \* uip_: the server a user is logged in to, or None
          told,       \* history: the threads that answers have named
          notified    \* history: applications and acceptances whose other user was notified

tables  == <<apply, friend, priv, lastThread>>
session == <<auto, view, pending>>
vars    == <<tables, session, job, where, told, notified>>

Pairs == {{a, b} : a, b \in Uids}
Rest  == [at |-> "rest", req |-> None, conn |-> None, tries |-> 0, id |-> 0, target |-> None]

Init == /\ apply = [p \in Uids \X Uids |-> IF p \in Stored0 THEN "new" ELSE "none"] /\ friend = {}
        /\ priv = [p \in Pairs |-> 0] /\ lastThread = 0
        /\ SessionInit /\ pending = [c \in Conns |-> {}]
        /\ job = [s \in Servers |-> Rest]
        /\ where = Home
        /\ told = {} /\ notified = {}

Req(s)     == job[s].req
Chat(r)    == {r.from, r.to}
At(s, l)   == job[s].at = l
GoesTo(s, l) == job' = [job EXCEPT ![s].at = l]

\* The answer; a Defer returns the connection.
Answer(s) == job' = [job EXCEPT ![s] = Rest]

\* A failed attempt is repeated on the next free connection, MaxRetry times in all
\* (in the mutated forms once more, and for ever).
TryOnceMore(s, l) ==
  job' = [job EXCEPT ![s] = [Rest EXCEPT !.at = l, !.req = Req(s), !.tries = job[s].tries + 1]]
TryForever(s, l) == job' = [job EXCEPT ![s] = [Rest EXCEPT !.at = l, !.req = Req(s)]]

TryAgain(s, l) ==
  IF job[s].tries + 1 = MaxRetry THEN Answer(s)
  ELSE job' = [job EXCEPT ![s] = [Rest EXCEPT !.at = l, !.req = Req(s), !.tries = job[s].tries + 1]]

\* Another connection holds the row lock of an application.
Locked(p, c) == \E d \in Conns \ {c} : p \in pending[d]

\* commit() and rollback() on c, for whatever it has not committed so far.
Stored(c) == [p \in DOMAIN apply |-> IF p \in pending[c] /\ apply[p] = "none" THEN "new" ELSE apply[p]]
EndTx(c)  == view' = Ended(c) /\ pending' = [pending EXCEPT ![c] = {}]

Tell(p, t) == told' = told \cup {[chat |-> p, thread |-> t]}

\* A client asks the server that it is logged in to.
Request(s, r) ==
  /\ At(s, "rest") /\ where[r.from] = s
  /\ job' = [job EXCEPT ![s].req = r, ![s].at = IF r.op = "text" THEN "locate" ELSE r.op]
  /\ UNCHANGED <<tables, session, where, told, notified>>
-----------------------------------------------------------------------------
(* AddFriendApply *)

\* INSERT ... ON DUPLICATE KEY: committed at once, or left to the next transaction
\* on a connection whose autocommit is off.
ApplyInsert(s, c) ==
  LET p == <<Req(s).from, Req(s).to>> IN
  /\ At(s, "apply") /\ c \in Pool[s] /\ ~Locked(p, c)
  /\ IF auto[c] THEN apply' = [apply EXCEPT ![p] = IF @ = "none" THEN "new" ELSE @] /\ UNCHANGED pending
     ELSE pending' = [pending EXCEPT ![c] = @ \cup {p}] /\ UNCHANGED apply
  /\ GoesTo(s, "locate")
  /\ UNCHANGED <<friend, priv, lastThread, auto, view, where, told, notified>>

\* The lock wait times out; the handler ignores the result.
ApplyTimeout(s, c) ==
  /\ At(s, "apply") /\ c \in Pool[s] /\ Locked(<<Req(s).from, Req(s).to>>, c)
  /\ GoesTo(s, "locate")
  /\ UNCHANGED <<tables, session, where, told, notified>>
-----------------------------------------------------------------------------
(* AuthFriendApply: AddFriend(fromuid, touid) accepts the application of touid *)

Applied(s) == <<Req(s).to, Req(s).from>>

\* The mutated form leaves autocommit on: the status is stored by itself.
AuthUpdateAlone(s, c) ==
  /\ At(s, "auth") /\ c \in Pool[s] /\ ~Locked(Applied(s), c)
  /\ apply[Applied(s)] = "new"
  /\ apply' = [apply EXCEPT ![Applied(s)] = "done"]
  /\ job' = [job EXCEPT ![s].at = "thread", ![s].conn = c]
  /\ UNCHANGED <<friend, priv, lastThread, session, where, told, notified>>

\* UPDATE ... AND status = 0 sees the committed row, or its own connection's, and
\* locks it; the SELECT after it opens the snapshot.
AuthUpdate(s, c) ==
  LET p == Applied(s)
      status == IF apply[p] = "none" /\ p \in pending[c] THEN "new" ELSE apply[p] IN
  /\ At(s, "auth") /\ c \in Pool[s] /\ ~Locked(p, c)
  /\ auto' = AutoOff(c)
  /\ IF status = "new"
     THEN /\ view' = Opened(c, priv) /\ pending' = [pending EXCEPT ![c] = @ \cup {p}]
          /\ job' = [job EXCEPT ![s].at = "thread", ![s].conn = c]
     ELSE EndTx(c) /\ Answer(s)
  /\ UNCHANGED <<tables, where, told, notified>>

\* Error 1205: rollback, and another attempt.
AuthTimeout(s, c) ==
  /\ At(s, "auth") /\ c \in Pool[s] /\ Locked(Applied(s), c)
  /\ auto' = AutoOff(c) /\ EndTx(c) /\ TryAgain(s, "auth")
  /\ UNCHANGED <<tables, where, told, notified>>

\* The friend rows of the two users are locked by another transaction.
FriendsLocked(s) == \E o \in Servers \ {s} : At(o, "private") /\ Chat(Req(o)) = Chat(Req(s))

\* The two friend rows and a new chat_thread; none of them shows before the commit.
AcceptThread(s) ==
  /\ At(s, "thread") /\ ~FriendsLocked(s) /\ lastThread < MaxThreads
  /\ lastThread' = lastThread + 1
  /\ job' = [job EXCEPT ![s].at = "private", ![s].id = lastThread + 1]
  /\ UNCHANGED <<apply, friend, priv, session, where, told, notified>>

\* A lock wait on those rows: error 1205 and another attempt, or a deadlock of two
\* users who accept each other, which is any other error.
AcceptTimeout(s) ==
  /\ At(s, "thread") /\ FriendsLocked(s)
  /\ EndTx(job[s].conn)
  /\ TryAgain(s, "auth") \/ Answer(s)
  /\ UNCHANGED <<tables, auto, where, told, notified>>

\* The private_chat row and the commit; a pair that already has one fails the
\* transaction with error 1062, which is not repeated.
AcceptCommit(s) ==
  LET c == job[s].conn  p == Chat(Req(s)) IN
  /\ At(s, "private") /\ EndTx(c)
  /\ IF priv[p] = 0
     THEN /\ apply' = [Stored(c) EXCEPT ![Applied(s)] = "done"]
          /\ friend' = friend \cup {<<Req(s).from, Req(s).to>>, Applied(s)}
          /\ priv' = [priv EXCEPT ![p] = job[s].id]
          /\ Tell(p, job[s].id)
          /\ job' = [job EXCEPT ![s] = [Rest EXCEPT !.at = "locate", !.req = Req(s)]]
     ELSE Answer(s) /\ UNCHANGED <<apply, friend, priv, told>>
  /\ UNCHANGED <<lastThread, auto, where, notified>>
-----------------------------------------------------------------------------
(* CreatePrivateChat *)

\* SELECT on the snapshot: the chat it shows is the answer; else autocommit goes
\* off and a chat_thread is inserted.
ChatSelect(s, c) ==
  LET p == Chat(Req(s)) IN
  /\ At(s, "chat") /\ c \in Pool[s]
  /\ view' = Read(c, priv)
  /\ IF Seen(c, priv)[p] # 0
     THEN Tell(p, Seen(c, priv)[p]) /\ Answer(s) /\ UNCHANGED <<auto, lastThread>>
     ELSE /\ lastThread < MaxThreads /\ lastThread' = lastThread + 1
          /\ auto' = AutoOff(c)
          /\ job' = [job EXCEPT ![s].at = "insert", ![s].conn = c, ![s].id = lastThread + 1]
          /\ UNCHANGED told
  /\ UNCHANGED <<apply, friend, priv, pending, where, notified>>

\* The private_chat row and the commit; error 1062: rollback and another attempt (the
\* mutated form answers with the new id all the same).
ChatInsertAnyway(s) ==
  LET c == job[s].conn  p == Chat(Req(s)) IN
  /\ At(s, "insert") /\ EndTx(c)
  /\ apply' = Stored(c) /\ Tell(p, job[s].id) /\ Answer(s)
  /\ priv' = IF priv[p] = 0 THEN [priv EXCEPT ![p] = job[s].id] ELSE priv
  /\ UNCHANGED <<friend, lastThread, auto, where, notified>>

ChatInsert(s) ==
  LET c == job[s].conn  p == Chat(Req(s)) IN
  /\ At(s, "insert") /\ EndTx(c)
  /\ IF priv[p] = 0
     THEN /\ priv' = [priv EXCEPT ![p] = job[s].id] /\ apply' = Stored(c)
          /\ Tell(p, job[s].id) /\ Answer(s)
     ELSE TryAgain(s, "chat") /\ UNCHANGED <<priv, apply, told>>
  /\ UNCHANGED <<friend, lastThread, auto, where, notified>>
-----------------------------------------------------------------------------
(* The lists *)

\* LIMIT size + 1 rows by increasing id: the page, and whether there is more.
Smallest(ids, n) == {i \in ids : Cardinality({j \in ids : j < i}) < n}
Page(ids, last, size) ==
  LET rows == Smallest({i \in ids : i > last}, size + 1) IN
  [rows |-> Smallest(rows, size), more |-> Cardinality(rows) > size]

\* GetUserThreads: a page of the chats that u has in the snapshot v.
UserThreads(u, v, last) ==
  LET mine == {p \in Pairs : u \in p /\ v[p] # 0}
      page == Page({v[p] : p \in mine}, last, PageSize)
  IN {[chat |-> p, thread |-> v[p]] : p \in {q \in mine : v[q] \in page.rows}}

ListRead(s, c, last) ==
  /\ At(s, "list") /\ c \in Pool[s]
  /\ view' = Read(c, priv)
  /\ told' = told \cup UserThreads(Req(s).from, Seen(c, priv), last)
  /\ Answer(s)
  /\ UNCHANGED <<tables, auto, pending, where, notified>>

\* LoadChatMsg, GetApplyList and GetFriendList: rows that no property tells apart, but
\* the snapshot they are read from stays.
OtherRead(s, c) ==
  /\ At(s, "load") /\ c \in Pool[s]
  /\ view' = Read(c, priv) /\ Answer(s)
  /\ UNCHANGED <<tables, auto, pending, where, told, notified>>
-----------------------------------------------------------------------------
(* The other user *)

\* Redis names the server of touid; a user who is not logged in is not notified.
Locate(s) ==
  /\ At(s, "locate")
  /\ LET w == where[Req(s).to] IN
     IF w = None THEN Answer(s) ELSE job' = [job EXCEPT ![s].at = "notify", ![s].target = w]
  /\ UNCHANGED <<tables, session, where, told, notified>>

Peers(s) == Servers \ {s}

\* Sent to the session here (self is the server's own name as the handler reads it),
\* or by gRPC to one of the peers; the user may have left meanwhile, and a call that
\* fails is not noticed.
Notify(s, self) ==
  LET t == job[s].target
      reached == (t = self \/ t \in Peers(s)) /\ where[Req(s).to] = t IN
  /\ Answer(s)
  /\ \/ reached /\ notified' = notified \cup {Req(s)}
     \/ (~reached \/ t # s) /\ UNCHANGED notified
  /\ UNCHANGED <<tables, session, where, told>>

\* AddFriendApply reads its own name under a key that the configuration has not.  A
\* text is sent the same way; it is stored nowhere, arrived or not.
NotifyAddFriend(s)   == At(s, "notify") /\ Req(s).op = "apply" /\ Notify(s, None)
NotifyAuthFriend(s)  == At(s, "notify") /\ Req(s).op = "auth" /\ Notify(s, s)
NotifyTextChatMsg(s) == /\ At(s, "notify") /\ Req(s).op = "text"
                        /\ Answer(s) /\ UNCHANGED <<tables, session, where, told, notified>>
-----------------------------------------------------------------------------
\* A login or an exit.
Move(u, w) == /\ <<u, w>> \in Moves /\ where[u] # w /\ where' = [where EXCEPT ![u] = w]
              /\ UNCHANGED <<tables, session, job, told, notified>>

\* The pool replaces an idle connection that the database has dropped, and with it
\* goes what the connection had not committed.
Replace(c) ==
  /\ \A s \in Servers : job[s].conn # c
  /\ ~auto[c] /\ auto' = [auto EXCEPT ![c] = TRUE] /\ EndTx(c)
  /\ UNCHANGED <<tables, job, where, told, notified>>

\* The handlers, each with the statements and lookups it runs.
AddFriendApply(s)    == \/ \E c \in Conns : ApplyInsert(s, c) \/ ApplyTimeout(s, c)
                        \/ NotifyAddFriend(s)
AuthFriendApply(s)   == \/ \E c \in Conns : AuthUpdate(s, c) \/ AuthTimeout(s, c)
                        \/ AcceptThread(s) \/ AcceptTimeout(s) \/ AcceptCommit(s)
                        \/ NotifyAuthFriend(s)
DealChatTextMsg(s)   == Locate(s) \/ NotifyTextChatMsg(s)
CreatePrivateChat(s) == (\E c \in Conns : ChatSelect(s, c)) \/ ChatInsert(s)
GetUserThreads(s)    == \E c \in Conns, last \in 0..MaxThreads : ListRead(s, c, last)
LoadChatMsg(s)       == \E c \in Conns : OtherRead(s, c)

Handle(s) == \/ AddFriendApply(s) \/ AuthFriendApply(s) \/ DealChatTextMsg(s)
             \/ CreatePrivateChat(s) \/ GetUserThreads(s) \/ LoadChatMsg(s)

Next == \/ \E s \in Servers : Handle(s) \/ \E r \in Requests : Request(s, r)
        \/ \E u \in Uids, w \in Servers \cup {None} : Move(u, w)
        \/ \E c \in Conns : Replace(c)

Spec == Init /\ [][Next]_vars
FairSpec == Spec /\ \A s \in Servers : WF_vars(Handle(s))
-----------------------------------------------------------------------------
(* Properties *)

TypeOK ==
  /\ apply \in [Uids \X Uids -> {"none", "new", "done"}] /\ friend \in SUBSET (Uids \X Uids)
  /\ priv \in [Pairs -> Nat] /\ lastThread \in Nat
  /\ auto \in [Conns -> BOOLEAN] /\ view \in [Conns -> [Pairs -> Nat] \cup {NoView}]
  /\ pending \in [Conns -> SUBSET (Uids \X Uids)]
  /\ job \in [Servers -> [at : {"rest", "apply", "auth", "thread", "private", "chat", "insert",
                              "list", "load", "locate", "notify"},
                          req : Requests \cup {None}, conn : Conns \cup {None},
                          tries : 0..(MaxRetry - 1), id : Nat, target : Servers \cup {None}]]
  /\ where \in [Uids -> Servers \cup {None}]
  /\ told \in SUBSET [chat : Pairs, thread : Nat] /\ notified \in SUBSET Requests

\* Two users have one private chat: whatever snapshot an answer comes from, and
\* whoever creates the chat, all answers name its thread, and no other pair has it.
OneChatPerPair ==
  /\ \A t \in told : t.thread # 0 /\ t.thread = priv[t.chat]
  /\ \A p, q \in Pairs : priv[p] # 0 /\ priv[p] = priv[q] => p = q

\* An acceptance is stored as a whole, and its applicant hears of it only then:
\* accepted, friends of each other and their chat go together.
AcceptanceIsWhole ==
  /\ \A p \in Uids \X Uids :
       (apply[p] = "done" \/ p \in friend) =>
         /\ {p, <<p[2], p[1]>>} \subseteq friend /\ priv[{p[1], p[2]}] # 0
         /\ apply[p] = "done" \/ apply[<<p[2], p[1]>>] = "done"
  /\ \A n \in notified : n.op = "auth" => <<n.from, n.to>> \in friend

\* Every request is answered, whoever holds a row lock and for however long.
RequestsReturn ==
  \A s \in Servers : job[s] # Rest ~> (job[s] = Rest \/ lastThread = MaxThreads)

\* logic_system.cc:576 says that the database is updated first: who is notified of an
\* application will find it there, or it is at least on its way.
NotifiedIsStored ==
  \A n \in notified : n.op = "apply" =>
    apply[<<n.from, n.to>>] # "none" \/ \E c \in Conns : <<n.from, n.to>> \in pending[c]
=============================================================================
