--------------------------- MODULE AccountsProofs ---------------------------
(***************************************************************************)
(* Theorems of Accounts, for any handlers, connections and requests.       *)
(***************************************************************************)
EXTENDS Accounts, TLAPS

USE AccountsAssumption

Places == {"idle", "code", "select", "update", "insert", "email", "pwd", "login", "status"}

\* What a handler keeps from step to step, and what a connection does.
HandlersTyped ==
  /\ at \in [Handlers -> Places] /\ req \in [Handlers -> Forms \cup {None}]
  /\ given \in [Handlers -> Nat] /\ conn \in [Handlers -> Conns \cup {None}]
  /\ newId \in [Handlers -> Nat]

SessionsTyped == auto \in [Conns -> BOOLEAN] /\ view \in [Conns -> (SUBSET User) \cup {NoView}]

LEMMA TypeParts ==
  TypeOK <=> /\ HandlersTyped /\ SessionsTyped
             /\ rows \in SUBSET User /\ lastId \in Nat /\ idLock \in Handlers \cup {None}
             /\ sent \in [Mails -> Nat] /\ code \in [Mails -> Nat]
             /\ told \in SUBSET [uid : Nat, name : Names, mail : Mails]
  BY DEF TypeOK, HandlersTyped, SessionsTyped, Places

\* Answering and going on to another step keep a handler's types.
LEMMA AnswerTyped ==
  ASSUME HandlersTyped, NEW h \in Handlers,
         Answer(h) \/ (\E l \in Places : GoOn(h, l))
  PROVE  HandlersTyped'
  BY DEF HandlersTyped, Answer, GoOn, GoesTo, Keeps, Places

\* Whatever a statement does to a session, the session's types are kept.
LEMMA SessionTyped ==
  ASSUME SessionsTyped, rows \in SUBSET User, NEW c,
         auto' \in {auto, AutoOff(c)}, view' \in {view, Ended(c), Opened(c, rows), Read(c, rows)}
  PROVE  SessionsTyped'
<1>1. auto' \in [Conns -> BOOLEAN]
  BY DEF SessionsTyped, AutoOff
<1>2. c \in Conns => Seen(c, rows) \in (SUBSET User) \cup {NoView}
  BY DEF SessionsTyped, Seen
<1>3. Ended(c) \in [Conns -> (SUBSET User) \cup {NoView}]
  BY DEF SessionsTyped, Ended
<1>4. Opened(c, rows) \in [Conns -> (SUBSET User) \cup {NoView}]
  BY <1>2 DEF SessionsTyped, Opened
<1> QED
  BY <1>1, <1>3, <1>4 DEF SessionsTyped, Read

\* A request carries a form of the clients; only handlers at rest have none.
Asked == \A h \in Handlers : at[h] # "idle" => req[h] \in Forms
-----------------------------------------------------------------------------
LEMMA InitTyped == Init => TypeOK /\ Asked
  BY DEF Init, TypeOK, SessionInit, Asked

LEMMA NextAsked == TypeOK /\ Asked /\ [Next]_vars => Asked'
<1> SUFFICES ASSUME TypeOK, Asked, [Next]_vars
             PROVE  Asked'
  OBVIOUS
<1> USE DEF TypeOK, Asked
<1>1. ASSUME NEW h \in Handlers, Answer(h) \/ (\E l \in Places : GoOn(h, l) /\ at[h] # "idle")
      PROVE  Asked'
  BY <1>1 DEF Answer, GoOn, GoesTo
<1>2. ASSUME NEW h \in Handlers, NEW f \in Forms, Request(h, f)
      PROVE  Asked'
  BY <1>2 DEF Request, GoesTo
<1>3. ASSUME NEW h \in Handlers, Handle(h)
      PROVE  Asked'
  <2>1. CASE RegTimeout(h) \/ RegDuplicate(h) \/ RegInsert(h) \/ GetChatServer(h)
    BY <1>1, <2>1 DEF RegTimeout, RegDuplicate, RegRollback, RegInsert, GetChatServer
  <2>2. CASE CheckCode(h)
    BY <1>1, <2>2 DEF CheckCode, Places
  <2>3. CASE RegUpdate(h)
    BY <2>3 DEF RegUpdate, GoesTo
  <2>4. ASSUME NEW c \in Conns, RegSelect(h, c)
        PROVE  Asked'
    BY <1>1, <2>4 DEF RegSelect, GoesTo
  <2>5. ASSUME NEW c \in Conns, CheckEmail(h, c) \/ UpdatePwd(h, c) \/ CheckPwd(h, c)
        PROVE  Asked'
    BY <1>1, <2>5 DEF CheckEmail, UpdatePwd, CheckPwd, Places
  <2> QED
    BY <1>3, <2>1, <2>2, <2>3, <2>4, <2>5 DEF Handle
<1>4. CASE UNCHANGED hvars
  BY <1>4 DEF hvars
<1> QED
  BY <1>2, <1>3, <1>4 DEF Next, GetVerifyCode, CodeExpires, vars

LEMMA NextTyped == TypeOK /\ Asked /\ [Next]_vars => TypeOK'
<1> SUFFICES ASSUME TypeOK, Asked, [Next]_vars
             PROVE  TypeOK'
  OBVIOUS
<1>0. /\ HandlersTyped /\ SessionsTyped
      /\ rows \in SUBSET User /\ lastId \in Nat /\ idLock \in Handlers \cup {None}
      /\ sent \in [Mails -> Nat] /\ code \in [Mails -> Nat]
      /\ told \in SUBSET [uid : Nat, name : Names, mail : Mails]
  BY TypeParts
<1>1. ASSUME NEW m \in Mails, GetVerifyCode(m) \/ CodeExpires(m)
      PROVE  TypeOK'
  BY <1>1 DEF GetVerifyCode, CodeExpires, TypeOK, tables, session, hvars
<1>2. ASSUME NEW h \in Handlers, NEW f \in Forms, Request(h, f)
      PROVE  TypeOK'
  BY <1>2 DEF Request, GoesTo, TypeOK, tables, session, verify
<1>3. ASSUME NEW h \in Handlers, CheckCode(h) \/ GetChatServer(h)
      PROVE  TypeOK'
  <2>1. HandlersTyped'
    BY <1>0, <1>3, AnswerTyped DEF CheckCode, GetChatServer, Places
  <2> QED
    BY <1>0, <1>3, <2>1 DEF CheckCode, GetChatServer, TypeOK, HandlersTyped, Places,
                            tables, session, verify
<1>4. ASSUME NEW h \in Handlers, NEW c \in Conns, CheckEmail(h, c) \/ CheckPwd(h, c)
      PROVE  TypeOK'
  <2>1. HandlersTyped'
    BY <1>0, <1>4, AnswerTyped DEF CheckEmail, CheckPwd, Places
  <2>2. SessionsTyped'
    BY <1>0, <1>4, SessionTyped DEF CheckEmail, CheckPwd
  <2> QED
    BY <1>0, <1>4, <2>1, <2>2 DEF CheckEmail, CheckPwd, TypeOK, HandlersTyped, SessionsTyped,
                                  Places, tables, verify
<1>5. ASSUME NEW h \in Handlers, NEW c \in Conns, UpdatePwd(h, c)
      PROVE  TypeOK'
  <2>1. HandlersTyped' /\ SessionsTyped'
    BY <1>0, <1>5, AnswerTyped, SessionTyped DEF UpdatePwd
  <2>2. rows' \in SUBSET User
    <3>1. req[h] \in Forms /\ req[h].pwd \in Pwds
      BY <1>5 DEF UpdatePwd, Asked
    <3>2. ASSUME NEW r \in rows
          PROVE  [r EXCEPT !.pwd = IF r.mail = req[h].mail THEN req[h].pwd ELSE @] \in User
      BY <1>0, <3>1 DEF User
    <3> QED
      BY <1>5, <3>2 DEF UpdatePwd
  <2> QED
    BY <1>0, <1>5, <2>1, <2>2 DEF UpdatePwd, TypeOK, HandlersTyped, SessionsTyped, Places, verify
<1>6. ASSUME NEW h \in Handlers, NEW c \in Conns, RegSelect(h, c)
      PROVE  TypeOK'
  <2>1. SessionsTyped'
    BY <1>0, <1>6, SessionTyped DEF RegSelect
  <2>2. HandlersTyped'
    BY <1>0, <1>6, AnswerTyped DEF RegSelect, GoesTo, Keeps, HandlersTyped, Places
  <2> QED
    BY <1>0, <1>6, <2>1, <2>2 DEF RegSelect, TypeOK, HandlersTyped, SessionsTyped, Places,
                                  tables, verify
<1>7. ASSUME NEW h \in Handlers, RegUpdate(h)
      PROVE  TypeOK'
  BY <1>7 DEF RegUpdate, GoesTo, TypeOK, session, verify
<1>8. ASSUME NEW h \in Handlers, RegRollback(h)
      PROVE  TypeOK'
  <2>1. HandlersTyped' /\ SessionsTyped'
    BY <1>0, <1>8, AnswerTyped, SessionTyped DEF RegRollback
  <2>2. idLock' \in Handlers \cup {None}
    BY <1>0, <1>8 DEF RegRollback
  <2> QED
    BY <1>0, <1>8, <2>1, <2>2 DEF RegRollback, TypeOK, HandlersTyped, SessionsTyped, Places, verify
<1>9. ASSUME NEW h \in Handlers, RegInsert(h)
      PROVE  TypeOK'
  <2>1. HandlersTyped' /\ SessionsTyped'
    BY <1>0, <1>9, AnswerTyped, SessionTyped DEF RegInsert
  <2>2. /\ req[h].name \in Names /\ req[h].mail \in Mails /\ req[h].pwd \in Pwds
        /\ newId[h] \in Nat
    BY <1>0, <1>9 DEF RegInsert, Asked, HandlersTyped
  <2>3. rows' \in SUBSET User /\ told' \in SUBSET [uid : Nat, name : Names, mail : Mails]
    BY <1>0, <1>9, <2>2 DEF RegInsert, User
  <2> QED
    BY <1>0, <1>9, <2>1, <2>2, <2>3 DEF RegInsert, TypeOK, HandlersTyped, SessionsTyped, Places, verify
<1>10. CASE UNCHANGED vars
  BY <1>10 DEF vars, tables, session, verify, hvars, TypeOK
<1> QED
  BY <1>1, <1>2, <1>3, <1>4, <1>5, <1>6, <1>7, <1>8, <1>9, <1>10
  DEF Next, Handle, RegTimeout, RegDuplicate

\* The tables, the sessions and the handlers are well typed, and a handler at work has
\* a request.
THEOREM TypeCorrect == Spec => [](TypeOK /\ Asked)
  BY InitTyped, NextTyped, NextAsked, PTL DEF Spec
-----------------------------------------------------------------------------
\* UPDATE changes passwords only.
LEMMA PasswordsOnly ==
  ASSUME TypeOK, Asked, NEW h \in Handlers, NEW c \in Conns, UpdatePwd(h, c)
  PROVE  /\ \A r \in rows : \E s \in rows' : s.uid = r.uid /\ s.name = r.name /\ s.mail = r.mail
         /\ \A s \in rows' : \E r \in rows :
              /\ s.uid = r.uid /\ s.name = r.name /\ s.mail = r.mail
              /\ s = [r EXCEPT !.pwd = IF r.mail = req[h].mail THEN req[h].pwd ELSE @]
<1> DEFINE New(r) == [r EXCEPT !.pwd = IF r.mail = req[h].mail THEN req[h].pwd ELSE @]
<1>1. rows' = {New(r) : r \in rows}
  BY DEF UpdatePwd
<1>2. \A r \in rows : New(r).uid = r.uid /\ New(r).name = r.name /\ New(r).mail = r.mail
  BY DEF TypeOK, User
<1> HIDE DEF New
<1>3. \A r \in rows : \E s \in rows' : s.uid = r.uid /\ s.name = r.name /\ s.mail = r.mail
  BY <1>1, <1>2
<1>4. \A s \in rows' : \E r \in rows : s.uid = r.uid /\ s.name = r.name /\ s.mail = r.mail /\ s = New(r)
  BY <1>1, <1>2
<1> QED
  BY <1>3, <1>4 DEF New

LEMMA NextRegistered == TypeOK /\ Asked /\ RegisteredStays /\ [Next]_vars => RegisteredStays'
<1> SUFFICES ASSUME TypeOK, Asked, RegisteredStays, [Next]_vars
             PROVE  RegisteredStays'
  OBVIOUS
<1>1. ASSUME NEW h \in Handlers, NEW c \in Conns, UpdatePwd(h, c)
      PROVE  RegisteredStays'
  <2>1. told' = told
    BY <1>1 DEF UpdatePwd
  <2>2. \A t \in told' : \E r \in rows' : r.uid = t.uid /\ r.name = t.name /\ r.mail = t.mail
    BY <1>1, <2>1, PasswordsOnly DEF RegisteredStays
  <2>3. ASSUME NEW r \in rows', NEW s \in rows', r.uid = s.uid \/ r.mail = s.mail
        PROVE  r = s
    BY <1>1, <2>3, PasswordsOnly DEF RegisteredStays
  <2> QED
    BY <2>2, <2>3 DEF RegisteredStays
<1>2. ASSUME NEW h \in Handlers, RegInsert(h)
      PROVE  RegisteredStays'
  <2> DEFINE new == [uid |-> newId[h], name |-> req[h].name, mail |-> req[h].mail, pwd |-> req[h].pwd]
             reg == [uid |-> newId[h], name |-> req[h].name, mail |-> req[h].mail]
  <2>1. /\ rows' = rows \cup {new} /\ told' = told \cup {reg}
        /\ \A r \in rows : r.mail # new.mail /\ r.uid # new.uid
    BY <1>2 DEF RegInsert, Clashes
  <2>2. new.uid = reg.uid /\ new.name = reg.name /\ new.mail = reg.mail
    OBVIOUS
  <2> HIDE DEF new, reg
  <2>3. \A t \in told' : \E r \in rows' : r.uid = t.uid /\ r.name = t.name /\ r.mail = t.mail
    BY <2>1, <2>2 DEF RegisteredStays
  <2>4. \A r, s \in rows' : r.uid = s.uid \/ r.mail = s.mail => r = s
    BY <2>1 DEF RegisteredStays
  <2> QED
    BY <2>3, <2>4 DEF RegisteredStays
<1>3. CASE rows' = rows /\ told' = told
  BY <1>3 DEF RegisteredStays
<1> QED
  BY <1>1, <1>2, <1>3
  DEF Next, Handle, Request, GetVerifyCode, CodeExpires, CheckCode, RegSelect, RegUpdate, RegTimeout,
      RegDuplicate, RegRollback, CheckEmail, CheckPwd, GetChatServer, tables, vars

\* A registration that was answered with Success is there for good, and its uid and
\* its mail are nobody else's, however many handlers see whatever snapshots.
THEOREM Registered == Spec => []RegisteredStays
<1>1. Init => RegisteredStays
  BY DEF Init, RegisteredStays
<1> QED
  BY <1>1, TypeCorrect, NextRegistered, PTL DEF Spec
-----------------------------------------------------------------------------
\* Between UPDATE user_id and the commit a registration has the row lock, and the
\* uid it read is the next one.
LockInv == \A h \in Handlers : at[h] = "insert" => idLock = h /\ newId[h] = lastId + 1

BelowLast == \A r \in rows : r.uid <= lastId

LEMMA NextLocks ==
  TypeOK /\ Asked /\ LockInv /\ BelowLast /\ [Next]_vars => LockInv' /\ BelowLast'
<1> SUFFICES ASSUME TypeOK, Asked, LockInv, BelowLast, [Next]_vars
             PROVE  LockInv' /\ BelowLast'
  OBVIOUS
<1> USE DEF LockInv, BelowLast
<1>1. ASSUME NEW h \in Handlers, RegUpdate(h)
      PROVE  LockInv' /\ BelowLast'
  BY <1>1 DEF RegUpdate, GoesTo, TypeOK
<1>2. ASSUME NEW h \in Handlers, RegTimeout(h) \/ RegDuplicate(h)
      PROVE  LockInv' /\ BelowLast'
  BY <1>2 DEF RegTimeout, RegDuplicate, RegRollback, Answer, GoesTo, TypeOK
<1>3. ASSUME NEW h \in Handlers, RegInsert(h)
      PROVE  LockInv' /\ BelowLast'
  <2>1. lastId' = lastId + 1 /\ newId[h] = lastId + 1 /\ lastId \in Nat
    BY <1>3 DEF RegInsert, TypeOK
  <2>2. \A g \in Handlers : at'[g] # "insert"
    BY <1>3 DEF RegInsert, Answer, GoesTo, TypeOK
  <2>3. ASSUME NEW r \in rows'
        PROVE  r.uid <= lastId + 1
    <3>1. CASE r \in rows
      BY <2>1, <3>1 DEF TypeOK, User
    <3>2. CASE r \notin rows
      BY <1>3, <2>1, <3>2 DEF RegInsert
    <3> QED
      BY <3>1, <3>2
  <2> QED
    BY <2>1, <2>2, <2>3
<1>4. ASSUME NEW h \in Handlers, NEW c \in Conns, UpdatePwd(h, c)
      PROVE  LockInv' /\ BelowLast'
  <2>1. BelowLast'
    BY <1>4, PasswordsOnly DEF UpdatePwd
  <2> QED
    BY <1>4, <2>1 DEF UpdatePwd, Answer, GoesTo, TypeOK
<1>5. ASSUME NEW h \in Handlers, CheckCode(h) \/ GetChatServer(h)
      PROVE  LockInv' /\ BelowLast'
  BY <1>5 DEF CheckCode, GetChatServer, Answer, GoOn, GoesTo, tables, TypeOK
<1>6. ASSUME NEW h \in Handlers, NEW c \in Conns, CheckEmail(h, c) \/ CheckPwd(h, c)
      PROVE  LockInv' /\ BelowLast'
  BY <1>6 DEF CheckEmail, CheckPwd, Answer, GoOn, GoesTo, tables, TypeOK
<1>7. ASSUME NEW h \in Handlers, NEW c \in Conns, RegSelect(h, c)
      PROVE  LockInv' /\ BelowLast'
  BY <1>7 DEF RegSelect, Answer, GoesTo, Keeps, tables, TypeOK
<1>8. ASSUME NEW h \in Handlers, NEW f \in Forms, Request(h, f)
      PROVE  LockInv' /\ BelowLast'
  BY <1>8 DEF Request, GoesTo, tables, TypeOK
<1>9. CASE UNCHANGED <<tables, at, newId>>
  BY <1>9 DEF tables
<1> QED
  BY <1>1, <1>2, <1>3, <1>4, <1>5, <1>6, <1>7, <1>8, <1>9
  DEF Next, Handle, GetVerifyCode, CodeExpires, hvars, vars

\* No registration is refused because of its uid.
THEOREM UidsFree == Spec => []UidIsFree
<1>1. Init => LockInv /\ BelowLast
  BY DEF Init, LockInv, BelowLast
<1>2. TypeOK /\ LockInv /\ BelowLast => UidIsFree
  <2> SUFFICES ASSUME TypeOK, LockInv, BelowLast, NEW h \in Handlers, at[h] = "insert", NEW r \in rows
               PROVE  r.uid # newId[h]
    BY DEF UidIsFree, BelowLast
  <2>1. r.uid \in Nat /\ lastId \in Nat /\ r.uid <= lastId /\ newId[h] = lastId + 1
    BY DEF TypeOK, LockInv, BelowLast, User
  <2> QED
    BY <2>1
<1> QED
  BY <1>1, <1>2, TypeCorrect, NextLocks, PTL DEF Spec
=============================================================================
