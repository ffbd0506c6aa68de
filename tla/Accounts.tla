------------------------------ MODULE Accounts ------------------------------
(***************************************************************************)
(* Accounts: GateServer's POST handlers get_verifycode, register,          *)
(* reset_pwd and login on its io threads, the MysqlDao operations they     *)
(* call, and VerifyServer's code.  StatusServer's choice of a ChatServer is *)
(* module LoginCount.                                                      *)
(* One step is one statement of the database, one command of Redis or one  *)
(* critical section; a request that cannot be parsed, or whose passwords   *)
(* differ, is answered before any of these and is left out.                *)
(***************************************************************************)
EXTENDS Naturals, FiniteSets, MySqlSession

CONSTANTS Handlers,                \* GateServer's io threads
          Names, Mails, Pwds,
          Forms,                   \* the requests the clients may make
          MaxCodes,                \* bound: codes sent to a mail
          None

ASSUME AccountsAssumption ==
  /\ MaxCodes \in Nat /\ None \notin Handlers \cup Conns
  /\ Forms \subseteq [op : {"register", "reset", "login"}, name : Names, mail : Mails, pwd : Pwds]

VARIABLES rows, lastId,   \* tables user and user_id
          idLock,         \* who holds the row lock of user_id
          sent, code,     \* codes mailed so far; the one in Redis, 0 if none
          at, req,        \* where each handler is, and the request it answers
          given,          \* the code in that request
          conn, newId,    \* the connection and the uid it keeps from step to step
          told            \* history: the registrations answered with Success

tables  == <<rows, lastId, idLock>>
session == <<auto, view>>
verify  == <<sent, code>>
hvars   == <<at, req, given, conn, newId>>
vars    == <<tables, session, verify, hvars, told>>

Init == /\ rows = {} /\ lastId = 0 /\ idLock = None /\ told = {}
        /\ SessionInit
        /\ sent = [m \in Mails |-> 0] /\ code = sent
        /\ at = [h \in Handlers |-> "idle"] /\ given = [h \in Handlers |-> 0]
        /\ req = [h \in Handlers |-> None]
        /\ conn = [h \in Handlers |-> None] /\ newId = [h \in Handlers |-> 0]

Idle(c)      == \A h \in Handlers : conn[h] # c
GoesTo(h, l) == at' = [at EXCEPT ![h] = l]
Keeps(h, c)  == conn' = [conn EXCEPT ![h] = c]

\* The handler answers; the Defer of the operation has returned its connection (the
\* mutated form has no Defer).
AnswerKeepsConn(h) == /\ GoesTo(h, "idle") /\ req' = [req EXCEPT ![h] = None]
                      /\ given' = [given EXCEPT ![h] = 0] /\ newId' = [newId EXCEPT ![h] = 0]
                      /\ UNCHANGED conn

Answer(h) == /\ GoesTo(h, "idle") /\ req' = [req EXCEPT ![h] = None]
             /\ given' = [given EXCEPT ![h] = 0]
             /\ Keeps(h, None) /\ newId' = [newId EXCEPT ![h] = 0]
GoOn(h, l) == GoesTo(h, l) /\ UNCHANGED <<req, given, conn, newId>>
-----------------------------------------------------------------------------
(* get_verifycode *)

\* GetRedis fails on every key (`result` is not defined), so each request makes
\* and mails a new code.
GetVerifyCode(m) ==
  /\ sent[m] < MaxCodes
  /\ sent' = [sent EXCEPT ![m] = @ + 1]
  /\ code' = [code EXCEPT ![m] = sent'[m]]
  /\ UNCHANGED <<tables, session, hvars, told>>

\* SetRedisExpire: three minutes are over.
CodeExpires(m) ==
  /\ code[m] # 0
  /\ code' = [code EXCEPT ![m] = 0]
  /\ UNCHANGED <<tables, session, sent, hvars, told>>
-----------------------------------------------------------------------------
(* register *)

\* A client has the codes that were mailed to it, old ones included.
Request(h, f) ==
  /\ at[h] = "idle" /\ GoesTo(h, IF f.op = "login" THEN "login" ELSE "code")
  /\ req' = [req EXCEPT ![h] = f]
  /\ \E k \in IF f.op = "login" THEN {0} ELSE 1..sent[f.mail] : given' = [given EXCEPT ![h] = k]
  /\ UNCHANGED <<tables, session, verify, conn, newId, told>>

\* The code is compared with the one in Redis, which stays there.
CheckCode(h) ==
  /\ at[h] = "code"
  /\ IF code[req[h].mail] # given[h] THEN Answer(h)
     ELSE GoOn(h, IF req[h].op = "register" THEN "select" ELSE "email")
  /\ UNCHANGED <<tables, session, verify, told>>

\* RegUserTransaction looks for the mail and the name in the connection's snapshot.
RegSelect(h, c) ==
  /\ at[h] = "select" /\ Idle(c)
  /\ auto' = AutoOff(c)
  /\ IF \E r \in Seen(c, rows) : r.mail = req[h].mail \/ r.name = req[h].name
     THEN view' = Ended(c) /\ Answer(h)
     ELSE view' = Opened(c, rows) /\ GoesTo(h, "update") /\ Keeps(h, c) /\ UNCHANGED <<req, given, newId>>
  /\ UNCHANGED <<tables, verify, told>>

\* UPDATE user_id takes the row lock and SELECT reads the uid; the mutated form
\* reads it without the update.
RegUpdateUnlocked(h) ==
  /\ at[h] = "update" /\ GoesTo(h, "insert")
  /\ newId' = [newId EXCEPT ![h] = lastId + 1]
  /\ UNCHANGED <<tables, session, verify, req, given, conn, told>>

RegUpdate(h) ==
  /\ at[h] = "update" /\ idLock = None
  /\ idLock' = h
  /\ newId' = [newId EXCEPT ![h] = lastId + 1]
  /\ GoesTo(h, "insert")
  /\ UNCHANGED <<rows, lastId, session, verify, req, given, conn, told>>

RegRollback(h) ==
  /\ view' = Ended(conn[h]) /\ Answer(h)
  /\ idLock' = IF idLock = h THEN None ELSE idLock
  /\ UNCHANGED <<rows, lastId, auto, verify, told>>

\* The lock wait times out: rollback, -1.
RegTimeout(h) == at[h] = "update" /\ idLock # None /\ RegRollback(h)

\* The unique keys of table user; the name has none.
Clashes(h) == \E r \in rows : r.mail = req[h].mail \/ r.uid = newId[h]

\* INSERT of a mail another request has registered meanwhile: rollback, -1.
RegDuplicate(h) == at[h] = "insert" /\ Clashes(h) /\ RegRollback(h)

\* INSERT and commit (the mutated form binds name and mail in the wrong order).
RegInsertSwapped(h) ==
  /\ at[h] = "insert" /\ ~Clashes(h)
  /\ rows' = rows \cup {[uid |-> newId[h], name |-> req[h].mail,
                        mail |-> req[h].name, pwd |-> req[h].pwd]}
  /\ lastId' = newId[h] /\ idLock' = None /\ view' = Ended(conn[h])
  /\ Answer(h)
  /\ UNCHANGED <<auto, verify, told>>

RegInsert(h) ==
  /\ at[h] = "insert" /\ ~Clashes(h)
  /\ rows' = rows \cup {[uid |-> newId[h], name |-> req[h].name,
                        mail |-> req[h].mail, pwd |-> req[h].pwd]}
  /\ lastId' = newId[h] /\ idLock' = None
  /\ view' = Ended(conn[h])
  /\ told' = told \cup {[uid |-> newId[h], name |-> req[h].name, mail |-> req[h].mail]}
  /\ Answer(h)
  /\ UNCHANGED <<auto, verify>>
-----------------------------------------------------------------------------
(* reset_pwd *)

\* CheckEmail, on the snapshot of the connection it gets.
CheckEmail(h, c) ==
  /\ at[h] = "email" /\ Idle(c)
  /\ view' = Read(c, rows)
  /\ IF \E r \in Seen(c, rows) : r.mail = req[h].mail /\ r.name = req[h].name
     THEN GoOn(h, "pwd") ELSE Answer(h)
  /\ UNCHANGED <<tables, auto, verify, told>>

\* UpdatePwd: UPDATE changes the committed row of the mail, and succeeds without
\* one (the mutated form writes back the row its snapshot has).
UpdatePwdStale(h, c) ==
  /\ at[h] = "pwd" /\ Idle(c)
  /\ rows' = {[r EXCEPT !.pwd = IF r.mail = req[h].mail THEN req[h].pwd ELSE @] : r \in Seen(c, rows)}
  /\ auto' = AutoOff(c) /\ view' = Ended(c)
  /\ Answer(h)
  /\ UNCHANGED <<lastId, idLock, verify, told>>

UpdatePwd(h, c) ==
  /\ at[h] = "pwd" /\ Idle(c)
  /\ rows' = {[r EXCEPT !.pwd = IF r.mail = req[h].mail THEN req[h].pwd ELSE @] : r \in rows}
  /\ auto' = AutoOff(c) /\ view' = Ended(c)
  /\ Answer(h)
  /\ UNCHANGED <<lastId, idLock, verify, told>>
-----------------------------------------------------------------------------
(* login *)

\* CheckPwd, on the snapshot of the connection it gets.
CheckPwd(h, c) ==
  /\ at[h] = "login" /\ Idle(c)
  /\ view' = Read(c, rows)
  /\ IF \E r \in Seen(c, rows) : r.mail = req[h].mail /\ r.pwd = req[h].pwd
     THEN GoOn(h, "status") ELSE Answer(h)
  /\ UNCHANGED <<tables, auto, verify, told>>

\* The call of StatusServer returns, with a server or with an error.
GetChatServer(h) ==
  /\ at[h] = "status" /\ Answer(h)
  /\ UNCHANGED <<tables, session, verify, told>>
-----------------------------------------------------------------------------
Handle(h) == \/ CheckCode(h) \/ RegUpdate(h) \/ RegTimeout(h) \/ RegDuplicate(h) \/ RegInsert(h)
             \/ GetChatServer(h)
             \/ \E c \in Conns : \/ RegSelect(h, c) \/ CheckEmail(h, c)
                                 \/ UpdatePwd(h, c) \/ CheckPwd(h, c)

Next == \/ \E h \in Handlers : Handle(h) \/ \E f \in Forms : Request(h, f)
        \/ \E m \in Mails : GetVerifyCode(m) \/ CodeExpires(m)

Spec     == Init /\ [][Next]_vars
FairSpec == Spec /\ \A h \in Handlers : SF_vars(Handle(h))
-----------------------------------------------------------------------------
User == [uid : Nat, name : Names, mail : Mails, pwd : Pwds]
TypeOK ==
  /\ rows \in SUBSET User /\ lastId \in Nat /\ idLock \in Handlers \cup {None}
  /\ auto \in [Conns -> BOOLEAN] /\ view \in [Conns -> (SUBSET User) \cup {NoView}]
  /\ sent \in [Mails -> Nat] /\ code \in [Mails -> Nat]
  /\ at \in [Handlers -> {"idle", "code", "select", "update", "insert", "email", "pwd",
                          "login", "status"}]
  /\ req \in [Handlers -> Forms \cup {None}] /\ given \in [Handlers -> Nat]
  /\ conn \in [Handlers -> Conns \cup {None}]
  /\ newId \in [Handlers -> Nat]
  /\ told \in SUBSET [uid : Nat, name : Names, mail : Mails]

\* A registration that was answered with Success stays as it was answered, and
\* nobody else has its uid or its mail, whatever snapshots the other handlers see.
RegisteredStays ==
  /\ \A t \in told : \E r \in rows : r.uid = t.uid /\ r.name = t.name /\ r.mail = t.mail
  /\ \A r, s \in rows : r.uid = s.uid \/ r.mail = s.mail => r = s

\* The row lock of user_id: no registration is refused because of its uid, and the
\* counter never falls behind the table.
UidIsFree ==
  /\ \A h \in Handlers : at[h] = "insert" => \A r \in rows : r.uid # newId[h]
  /\ \A r \in rows : r.uid <= lastId

\* Every request is answered.
RequestsReturn == \A h \in Handlers : at[h] # "idle" ~> at[h] = "idle"
=============================================================================
