--------------------------- MODULE FriendsProofs ---------------------------
(***************************************************************************)
(* Theorems of Friends, for any servers, pools, users, requests and pages. *)
(***************************************************************************)
EXTENDS Friends, TLAPS

USE FriendsAssumption

Places == {"rest", "apply", "auth", "thread", "private", "chat", "insert",
           "list", "load", "locate", "notify"}
Tries  == 0..(MaxRetry - 1)
Job    == [at : Places, req : Requests \cup {None}, conn : Conns \cup {None},
           tries : Tries, id : Nat, target : Servers \cup {None}]

JobsTyped == job \in [Servers -> Job]

TablesTyped ==
  /\ apply \in [Uids \X Uids -> {"none", "new", "done"}] /\ friend \in SUBSET (Uids \X Uids)
  /\ priv \in [Pairs -> Nat] /\ lastThread \in Nat

SessionsTyped ==
  /\ auto \in [Conns -> BOOLEAN] /\ view \in [Conns -> [Pairs -> Nat] \cup {NoView}]
  /\ pending \in [Conns -> SUBSET (Uids \X Uids)]

LEMMA TypeParts ==
  TypeOK <=> /\ JobsTyped /\ TablesTyped /\ SessionsTyped
             /\ where \in [Uids -> Servers \cup {None}]
             /\ told \in SUBSET [chat : Pairs, thread : Nat] /\ notified \in SUBSET Requests
  BY DEF TypeOK, JobsTyped, Job, Places, Tries, TablesTyped, SessionsTyped

\* A thread that is not at rest has a request, of the operation it is in.
Asked ==
  \A s \in Servers :
    /\ ~At(s, "rest") => Req(s) \in Requests
    /\ At(s, "apply") => Req(s).op = "apply"
    /\ \A l \in {"thread", "private"} : At(s, l) => job[s].conn \in Conns
    /\ At(s, "insert") => job[s].conn \in Conns

\* The parties of a request.
LEMMA Parties ==
  ASSUME NEW r \in Requests
  PROVE  /\ r.from \in Uids /\ r.to \in Uids /\ Chat(r) \in Pairs
         /\ <<r.from, r.to>> \in Uids \X Uids /\ <<r.to, r.from>> \in Uids \X Uids
<1>1. r.from \in Uids /\ r.to \in Uids
  BY DEF FriendsAssumption
<1>2. \E a, b \in Uids : Chat(r) = {a, b}
  BY <1>1 DEF Chat
<1> QED
  BY <1>1, <1>2 DEF Pairs
-----------------------------------------------------------------------------
(* Types *)

LEMMA AtRest == Rest \in Job /\ Rest.at = "rest"
<1>1. 0 \in Tries /\ "rest" \in Places
  BY DEF Tries, Places
<1> QED
  BY <1>1 DEF Rest, Job

\* The next place of a job.
LEMMA JobStep ==
  ASSUME NEW j \in Job, NEW a \in Places
  PROVE  /\ [j EXCEPT !.at = a] \in Job
         /\ \A r \in Requests : [j EXCEPT !.req = r, !.at = a] \in Job
         /\ \A w \in Servers \cup {None} : [j EXCEPT !.at = a, !.target = w] \in Job
         /\ \A i \in Nat : [j EXCEPT !.at = a, !.id = i] \in Job
         /\ \A c \in Conns : [j EXCEPT !.at = a, !.conn = c] \in Job
         /\ \A c \in Conns, i \in Nat : [j EXCEPT !.at = a, !.conn = c, !.id = i] \in Job
  BY DEF Job

\* Answering or trying again.
LEMMA JobDone ==
  ASSUME JobsTyped, Asked, NEW s \in Servers, ~At(s, "rest"), NEW l \in {"auth", "chat"},
         Answer(s) \/ TryAgain(s, l)
  PROVE  JobsTyped' /\ Asked'
<1>1. CASE Answer(s)
  BY <1>1, AtRest DEF Answer, JobsTyped, Asked, At, Req
<1>2. CASE TryAgain(s, l) /\ ~Answer(s)
  <2> DEFINE new == [Rest EXCEPT !.at = l, !.req = Req(s), !.tries = job[s].tries + 1]
  <2>1. job' = [job EXCEPT ![s] = new] /\ job[s].tries + 1 # MaxRetry
    BY <1>2 DEF TryAgain
  <2>2. job[s].tries + 1 \in Tries
    <3>1. job[s].tries \in Tries
      BY DEF JobsTyped, Job
    <3> QED
      BY <2>1, <3>1 DEF Tries
  <2>3. Req(s) \in Requests /\ l \in Places
    BY DEF Asked, Places
  <2>4. new \in Job /\ new.at = l /\ new.req = Req(s)
    BY <2>2, <2>3, AtRest DEF Job, Rest
  <2> QED
    BY <2>1, <2>3, <2>4 DEF JobsTyped, Asked, At, Req
<1> QED
  BY <1>1, <1>2

\* What a statement does to its session keeps the session's types.
LEMMA SessionTyped ==
  ASSUME SessionsTyped, priv \in [Pairs -> Nat], NEW c,
         auto' \in {auto, AutoOff(c)},
         view' \in {view, Ended(c), Opened(c, priv), Read(c, priv)},
         \/ pending' \in {pending, [pending EXCEPT ![c] = {}]}
         \/ \E p \in Uids \X Uids : pending' = [pending EXCEPT ![c] = @ \cup {p}]
  PROVE  SessionsTyped'
<1>1. auto' \in [Conns -> BOOLEAN]
  BY DEF SessionsTyped, AutoOff
<1>2. c \in Conns => Seen(c, priv) \in [Pairs -> Nat] \cup {NoView}
  BY DEF SessionsTyped, Seen
<1>3. Ended(c) \in [Conns -> [Pairs -> Nat] \cup {NoView}]
  BY DEF SessionsTyped, Ended
<1>4. Opened(c, priv) \in [Conns -> [Pairs -> Nat] \cup {NoView}]
  BY <1>2 DEF SessionsTyped, Opened
<1>5. pending' \in [Conns -> SUBSET (Uids \X Uids)]
  BY DEF SessionsTyped
<1> QED
  BY <1>1, <1>3, <1>4, <1>5 DEF SessionsTyped, Read

LEMMA EndTyped ==
  ASSUME SessionsTyped, NEW c, EndTx(c), auto' = auto \/ auto' = AutoOff(c)
  PROVE  SessionsTyped'
<1>1. auto' \in [Conns -> BOOLEAN]
  BY DEF SessionsTyped, AutoOff
<1>2. view' \in [Conns -> [Pairs -> Nat] \cup {NoView}]
  BY DEF SessionsTyped, EndTx, Ended
<1>3. pending' \in [Conns -> SUBSET (Uids \X Uids)]
  BY DEF SessionsTyped, EndTx
<1> QED
  BY <1>1, <1>2, <1>3 DEF SessionsTyped

LEMMA InitTyped == Init => TypeOK /\ Asked
<1> SUFFICES ASSUME Init PROVE TypeOK /\ Asked
  OBVIOUS
<1>1. JobsTyped /\ Asked
  BY AtRest DEF Init, JobsTyped, Asked, At, Req
<1>2. TablesTyped /\ SessionsTyped
  BY DEF Init, TablesTyped, SessionsTyped, SessionInit
<1> QED
  BY <1>1, <1>2, TypeParts DEF Init

\* A step that only moves the job of s on.
LEMMA JobMoves ==
  ASSUME JobsTyped, Asked, NEW s \in Servers, NEW new \in Job, new.at # "rest",
         new.req \in Requests, new.at = "apply" => new.req.op = "apply",
         new.at \in {"thread", "private", "insert"} => new.conn \in Conns,
         job' = [job EXCEPT ![s] = new]
  PROVE  JobsTyped' /\ Asked'
  BY DEF JobsTyped, Asked, At, Req

LEMMA NextTyped == TypeOK /\ Asked /\ [Next]_vars => TypeOK' /\ Asked'
<1> SUFFICES ASSUME TypeOK, Asked, [Next]_vars
             PROVE  TypeOK' /\ Asked'
  OBVIOUS
<1>0. /\ JobsTyped /\ TablesTyped /\ SessionsTyped
      /\ priv \in [Pairs -> Nat] /\ lastThread \in Nat /\ \A s \in Servers : job[s] \in Job
      /\ where \in [Uids -> Servers \cup {None}]
      /\ told \in SUBSET [chat : Pairs, thread : Nat] /\ notified \in SUBSET Requests
  BY TypeParts DEF TablesTyped, JobsTyped
<1> DEFINE Typed == JobsTyped' /\ Asked' /\ TablesTyped' /\ SessionsTyped'
                    /\ where' \in [Uids -> Servers \cup {None}]
                    /\ told' \in SUBSET [chat : Pairs, thread : Nat] /\ notified' \in SUBSET Requests
<1>p. Typed => TypeOK' /\ Asked'
  BY DEF TypeOK, JobsTyped, Job, Places, Tries, TablesTyped, SessionsTyped
<1>r. ASSUME NEW s \in Servers, ~At(s, "rest")
      PROVE  /\ Req(s) \in Requests /\ Chat(Req(s)) \in Pairs
             /\ <<Req(s).from, Req(s).to>> \in Uids \X Uids /\ Applied(s) \in Uids \X Uids
             /\ Req(s).from \in Uids /\ Req(s).to \in Uids
  BY <1>r, Parties DEF Asked, Applied
<1>1. ASSUME NEW s \in Servers, NEW r \in Requests, Request(s, r)
      PROVE  Typed
  <2> DEFINE new == [job[s] EXCEPT !.req = r, !.at = IF r.op = "text" THEN "locate" ELSE r.op]
  <2>1. job' = [job EXCEPT ![s] = new]
    BY <1>1, <1>0 DEF Request, JobsTyped, Job
  <2>2. r.op \in {"apply", "auth", "chat", "list", "load", "text"}
    BY DEF FriendsAssumption
  <2>3. new \in Job /\ new.req = r /\ new.at = IF r.op = "text" THEN "locate" ELSE r.op
    <3>1. (IF r.op = "text" THEN "locate" ELSE r.op) \in Places
      BY <2>2 DEF Places
    <3>2. new \in Job
      BY <1>0, <3>1, JobStep
    <3> QED
      BY <1>0, <3>2 DEF Job
  <2>4. JobsTyped' /\ Asked'
    <3>1. new.at \notin {"rest", "thread", "private", "insert"} /\ (new.at = "apply" => r.op = "apply")
      BY <2>2, <2>3
    <3> HIDE DEF new
    <3> QED
      BY <1>0, <2>1, <2>3, <3>1, JobMoves
  <2> QED
    BY <1>0, <1>1, <2>4 DEF Request, tables, session, TablesTyped, SessionsTyped
<1>2. ASSUME NEW s \in Servers, NEW c \in Conns, ApplyInsert(s, c) \/ ApplyTimeout(s, c)
      PROVE  Typed
  <2> DEFINE new == [job[s] EXCEPT !.at = "locate"]
             p == <<Req(s).from, Req(s).to>>
  <2>0. ~At(s, "rest") /\ p \in Uids \X Uids /\ Req(s) \in Requests
    BY <1>2, <1>r DEF ApplyInsert, ApplyTimeout, At
  <2>1. job' = [job EXCEPT ![s] = new] /\ new \in Job /\ new.req = Req(s) /\ new.at = "locate"
    <3>1. job' = [job EXCEPT ![s] = new]
      BY <1>0, <1>2 DEF ApplyInsert, ApplyTimeout, GoesTo, JobsTyped, Job
    <3>2. new \in Job
      BY <1>0, JobStep DEF Places
    <3> QED
      BY <1>0, <3>1, <3>2 DEF Job, Req
  <2>2. JobsTyped' /\ Asked'
    BY <1>0, <2>0, <2>1, JobMoves
  <2>3. TablesTyped'
    BY <1>0, <1>2, <2>0 DEF ApplyInsert, ApplyTimeout, tables, TablesTyped
  <2>4. SessionsTyped'
    BY <1>0, <1>2, <2>0 DEF ApplyInsert, ApplyTimeout, session, SessionsTyped
  <2> QED
    BY <1>0, <1>2, <2>2, <2>3, <2>4 DEF ApplyInsert, ApplyTimeout, tables, session
<1>3. ASSUME NEW s \in Servers, NEW c \in Conns, AuthUpdate(s, c)
      PROVE  Typed
  <2>0. ~At(s, "rest") /\ Applied(s) \in Uids \X Uids /\ Req(s) \in Requests
    BY <1>3, <1>r DEF AuthUpdate, At
  <2> DEFINE new == [job[s] EXCEPT !.at = "thread", !.conn = c]
  <2>1. new \in Job /\ new.req = Req(s) /\ new.at = "thread" /\ new.conn = c
    <3>1. new \in Job
      BY <1>0, JobStep DEF Places
    <3> QED
      BY <1>0, <3>1 DEF Job, Req
  <2>2. JobsTyped' /\ Asked'
    <3>1. CASE Answer(s)
      BY <1>0, <2>0, <3>1, JobDone
    <3>2. CASE job' = [job EXCEPT ![s].at = "thread", ![s].conn = c]
      <4>1. job' = [job EXCEPT ![s] = new]
        BY <1>0, <3>2 DEF JobsTyped, Job
      <4> QED
        BY <1>0, <2>0, <2>1, <4>1, JobMoves
    <3> QED
      BY <1>3, <3>1, <3>2 DEF AuthUpdate
  <2>3. SessionsTyped'
    <3>1. priv \in [Pairs -> Nat]
      BY <1>0 DEF TablesTyped
    <3> QED
      BY <1>0, <1>3, <2>0, <3>1, SessionTyped DEF AuthUpdate, EndTx
  <2> QED
    BY <1>0, <1>3, <2>2, <2>3 DEF AuthUpdate, tables, TablesTyped
<1>4. ASSUME NEW s \in Servers, NEW c \in Conns, AuthTimeout(s, c)
      PROVE  Typed
  <2>1. JobsTyped' /\ Asked'
    BY <1>0, <1>4, JobDone DEF AuthTimeout, At
  <2>2. SessionsTyped'
    BY <1>0, <1>4, EndTyped DEF AuthTimeout
  <2> QED
    BY <1>0, <1>4, <2>1, <2>2 DEF AuthTimeout, tables, TablesTyped
<1>5. ASSUME NEW s \in Servers, AcceptThread(s)
      PROVE  Typed
  <2> DEFINE new == [job[s] EXCEPT !.at = "private", !.id = lastThread + 1]
  <2>0. ~At(s, "rest") /\ Req(s) \in Requests /\ job[s].conn \in Conns
    BY <1>5, <1>r DEF AcceptThread, At, Asked
  <2>1. job' = [job EXCEPT ![s] = new] /\ new \in Job /\ new.req = Req(s) /\ new.at = "private"
        /\ new.conn = job[s].conn
    <3>1. job' = [job EXCEPT ![s] = new]
      BY <1>0, <1>5 DEF AcceptThread, JobsTyped, Job
    <3>2. lastThread + 1 \in Nat /\ "private" \in Places
      BY <1>0 DEF Places
    <3>3. new \in Job
      BY <1>0, <3>2, JobStep
    <3> QED
      BY <1>0, <3>1, <3>3 DEF Job, Req
  <2>2. JobsTyped' /\ Asked'
    BY <1>0, <2>0, <2>1, JobMoves
  <2> QED
    BY <1>0, <1>5, <2>2 DEF AcceptThread, session, TablesTyped, SessionsTyped
<1>6. ASSUME NEW s \in Servers, AcceptTimeout(s)
      PROVE  Typed
  <2>1. JobsTyped' /\ Asked'
    BY <1>0, <1>6, JobDone DEF AcceptTimeout, At
  <2>2. SessionsTyped'
    BY <1>0, <1>6, EndTyped DEF AcceptTimeout
  <2> QED
    BY <1>0, <1>6, <2>1, <2>2 DEF AcceptTimeout, tables, TablesTyped
<1>7. ASSUME NEW s \in Servers, AcceptCommit(s)
      PROVE  Typed
  <2> DEFINE new == [Rest EXCEPT !.at = "locate", !.req = Req(s)]
             c == job[s].conn
  <2>0. /\ ~At(s, "rest") /\ Req(s) \in Requests /\ Chat(Req(s)) \in Pairs
        /\ Applied(s) \in Uids \X Uids /\ <<Req(s).from, Req(s).to>> \in Uids \X Uids
    BY <1>7, <1>r DEF AcceptCommit, At
  <2>1. new \in Job /\ new.req = Req(s) /\ new.at = "locate"
    BY <2>0, AtRest DEF Rest, Job, Places
  <2>2. JobsTyped' /\ Asked'
    BY <1>0, <1>7, <2>0, <2>1, JobMoves, JobDone DEF AcceptCommit
  <2>3. SessionsTyped'
    BY <1>0, <1>7, EndTyped DEF AcceptCommit
  <2>4. Stored(c) \in [Uids \X Uids -> {"none", "new", "done"}] /\ job[s].id \in Nat
    BY <1>0 DEF Stored, TablesTyped, JobsTyped, Job
  <2>5. TablesTyped'
    BY <1>0, <1>7, <2>0, <2>4 DEF AcceptCommit, TablesTyped
  <2>6. told' \in SUBSET [chat : Pairs, thread : Nat]
    BY <1>0, <1>7, <2>0, <2>4 DEF AcceptCommit, Tell
  <2> QED
    BY <1>0, <1>7, <2>2, <2>3, <2>5, <2>6 DEF AcceptCommit
<1>8. ASSUME NEW s \in Servers, NEW c \in Conns, ChatSelect(s, c)
      PROVE  Typed
  <2> DEFINE new == [job[s] EXCEPT !.at = "insert", !.conn = c, !.id = lastThread + 1]
  <2>0. ~At(s, "rest") /\ Req(s) \in Requests /\ Chat(Req(s)) \in Pairs
    BY <1>8, <1>r DEF ChatSelect, At
  <2>1. new \in Job /\ new.req = Req(s) /\ new.at = "insert" /\ new.conn = c
    <3>1. lastThread + 1 \in Nat /\ "insert" \in Places
      BY <1>0 DEF Places
    <3>2. new \in Job
      BY <1>0, <3>1, JobStep
    <3> QED
      BY <1>0, <3>2 DEF Job, Req
  <2>2. JobsTyped' /\ Asked'
    <3>1. CASE Answer(s)
      BY <1>0, <2>0, <3>1, JobDone
    <3>2. CASE job' = [job EXCEPT ![s].at = "insert", ![s].conn = c, ![s].id = lastThread + 1]
      <4>1. job' = [job EXCEPT ![s] = new]
        BY <1>0, <3>2 DEF JobsTyped, Job
      <4> QED
        BY <1>0, <2>0, <2>1, <4>1, JobMoves
    <3> QED
      BY <1>8, <3>1, <3>2 DEF ChatSelect
  <2>3. SessionsTyped'
    BY <1>0, <1>8, SessionTyped DEF ChatSelect
  <2>4. Seen(c, priv) \in [Pairs -> Nat] \cup {NoView}
    BY <1>0 DEF Seen, SessionsTyped, TablesTyped
  <2>5. told' \in SUBSET [chat : Pairs, thread : Nat]
    BY <1>0, <1>8, <2>0, <2>4 DEF ChatSelect, Tell, Seen, SessionsTyped, TablesTyped
  <2> QED
    BY <1>0, <1>8, <2>2, <2>3, <2>5 DEF ChatSelect, TablesTyped
<1>9. ASSUME NEW s \in Servers, ChatInsert(s)
      PROVE  Typed
  <2> DEFINE c == job[s].conn
  <2>0. ~At(s, "rest") /\ Req(s) \in Requests /\ Chat(Req(s)) \in Pairs
    BY <1>9, <1>r DEF ChatInsert, At
  <2>1. JobsTyped' /\ Asked'
    BY <1>0, <1>9, <2>0, JobDone DEF ChatInsert
  <2>2. SessionsTyped'
    BY <1>0, <1>9, EndTyped DEF ChatInsert
  <2>3. Stored(c) \in [Uids \X Uids -> {"none", "new", "done"}] /\ job[s].id \in Nat
    BY <1>0 DEF Stored, TablesTyped, JobsTyped, Job
  <2>4. TablesTyped' /\ told' \in SUBSET [chat : Pairs, thread : Nat]
    <3>1. CASE priv[Chat(Req(s))] = 0
      BY <1>0, <1>9, <2>0, <2>3, <3>1 DEF ChatInsert, TablesTyped, Tell
    <3>2. CASE priv[Chat(Req(s))] # 0
      BY <1>0, <1>9, <3>2 DEF ChatInsert, TablesTyped
    <3> QED
      BY <3>1, <3>2
  <2> QED
    BY <1>0, <1>9, <2>1, <2>2, <2>4 DEF ChatInsert
<1>10. ASSUME NEW s \in Servers, NEW c \in Conns, NEW last,
              ListRead(s, c, last) \/ OtherRead(s, c)
       PROVE  Typed
  <2>0. ~At(s, "rest")
    BY <1>10 DEF ListRead, OtherRead, At
  <2>1. JobsTyped' /\ Asked'
    BY <1>0, <1>10, <2>0, JobDone DEF ListRead, OtherRead
  <2>2. SessionsTyped'
    BY <1>0, <1>10, SessionTyped DEF ListRead, OtherRead
  <2>3. told' \in SUBSET [chat : Pairs, thread : Nat]
    <3>2. view[c] # NoView \/ Seen(c, priv) \in [Pairs -> Nat]
      BY <1>0 DEF Seen, TablesTyped
    <3>3. Seen(c, priv) \in [Pairs -> Nat]
      BY <1>0, <3>2 DEF Seen, SessionsTyped
    <3>4. UserThreads(Req(s).from, Seen(c, priv), last) \subseteq [chat : Pairs, thread : Nat]
      <4>1. \A p \in Pairs : [chat |-> p, thread |-> Seen(c, priv)[p]] \in [chat : Pairs, thread : Nat]
        BY <3>3
      <4> QED
        BY <4>1 DEF UserThreads
    <3> QED
      BY <1>0, <1>10, <3>4 DEF ListRead, OtherRead
  <2> QED
    BY <1>0, <1>10, <2>1, <2>2, <2>3 DEF ListRead, OtherRead, tables, TablesTyped
<1>11. ASSUME NEW s \in Servers, Locate(s)
       PROVE  Typed
  <2>0. ~At(s, "rest") /\ Req(s) \in Requests /\ Req(s).to \in Uids
    BY <1>11, <1>r DEF Locate, At
  <2> DEFINE new == [job[s] EXCEPT !.at = "notify", !.target = where[Req(s).to]]
  <2>1. new \in Job /\ new.req = Req(s) /\ new.at = "notify"
    <3>1. where[Req(s).to] \in Servers \cup {None} /\ "notify" \in Places
      BY <1>0, <2>0 DEF Places
    <3>2. new \in Job
      BY <1>0, <3>1, JobStep
    <3> QED
      BY <1>0, <3>2 DEF Job, Req
  <2>2. JobsTyped' /\ Asked'
    <3>1. CASE Answer(s)
      BY <1>0, <2>0, <3>1, JobDone
    <3>2. CASE job' = [job EXCEPT ![s].at = "notify", ![s].target = where[Req(s).to]]
      <4>1. job' = [job EXCEPT ![s] = new]
        BY <1>0, <3>2 DEF JobsTyped, Job
      <4> QED
        BY <1>0, <2>0, <2>1, <4>1, JobMoves
    <3> QED
      BY <1>11, <3>1, <3>2 DEF Locate
  <2> QED
    BY <1>0, <1>11, <2>2 DEF Locate, tables, session, TablesTyped, SessionsTyped
<1>12. ASSUME NEW s \in Servers, NotifyAddFriend(s) \/ NotifyAuthFriend(s) \/ NotifyTextChatMsg(s)
       PROVE  Typed
  <2>0. ~At(s, "rest") /\ Req(s) \in Requests /\ Answer(s)
    BY <1>12, <1>r DEF NotifyAddFriend, NotifyAuthFriend, NotifyTextChatMsg, Notify, At
  <2>1. JobsTyped' /\ Asked'
    BY <1>0, <2>0, JobDone
  <2>2. notified' \in SUBSET Requests
    BY <1>0, <1>12, <2>0 DEF NotifyAddFriend, NotifyAuthFriend, NotifyTextChatMsg, Notify
  <2>3. UNCHANGED <<tables, session, where, told>>
    BY <1>12 DEF NotifyAddFriend, NotifyAuthFriend, NotifyTextChatMsg, Notify
  <2> QED
    BY <1>0, <2>1, <2>2, <2>3 DEF tables, session, TablesTyped, SessionsTyped
<1>13. ASSUME NEW u \in Uids, NEW w \in Servers \cup {None}, Move(u, w)
       PROVE  Typed
  BY <1>0, <1>13 DEF Move, tables, session, TablesTyped, SessionsTyped, JobsTyped, Asked, At, Req
<1>14. ASSUME NEW c \in Conns, Replace(c)
       PROVE  Typed
  BY <1>0, <1>14 DEF Replace, EndTx, Ended, tables, TablesTyped, SessionsTyped, JobsTyped, Asked, At, Req
<1>15. CASE UNCHANGED vars
  <2>1. UNCHANGED <<tables, session, job, where, told, notified>>
    BY <1>15 DEF vars
  <2>2. JobsTyped' /\ Asked'
    BY <1>0, <2>1 DEF JobsTyped, Asked, At, Req
  <2>3. TablesTyped' /\ SessionsTyped'
    BY <1>0, <2>1 DEF tables, session, TablesTyped, SessionsTyped
  <2> QED
    BY <1>0, <1>p, <2>1, <2>2, <2>3
<1>16. ASSUME NEW s \in Servers, Handle(s)
       PROVE  Typed
  <2> HIDE DEF Typed
  <2>1. CASE AddFriendApply(s)
    BY <1>2, <1>12, <2>1 DEF AddFriendApply
  <2>2. CASE AuthFriendApply(s)
    BY <1>3, <1>4, <1>5, <1>6, <1>7, <1>12, <2>2 DEF AuthFriendApply
  <2>3. CASE DealChatTextMsg(s)
    BY <1>11, <1>12, <2>3 DEF DealChatTextMsg
  <2>4. CASE CreatePrivateChat(s) \/ GetUserThreads(s) \/ LoadChatMsg(s)
    BY <1>8, <1>9, <1>10, <2>4 DEF CreatePrivateChat, GetUserThreads, LoadChatMsg
  <2> QED
    BY <1>16, <2>1, <2>2, <2>3, <2>4 DEF Handle
<1> HIDE DEF Typed
<1> QED
  BY <1>p, <1>1, <1>13, <1>14, <1>15, <1>16 DEF Next

\* Whatever the requests, the tables, the sessions and the jobs are well typed, and a
\* logic thread at work has a request and, inside a transaction, a connection.
THEOREM TypeCorrect == Spec => [](TypeOK /\ Asked)
  BY InitTyped, NextTyped, PTL DEF Spec
\* Where an answer or another attempt leaves a job.
LEMMA JobEnds ==
  ASSUME TypeOK, NEW s \in Servers, NEW l \in {"auth", "chat"}, Answer(s) \/ TryAgain(s, l)
  PROVE  (\A o \in Servers \ {s} : job'[o] = job[o]) /\ job'[s].at \in {"rest", l}
<1>1. CASE Answer(s)
  BY <1>1 DEF Answer, TypeOK, Rest
<1>2. CASE ~Answer(s)
  <2> DEFINE new == [Rest EXCEPT !.at = l, !.req = Req(s), !.tries = job[s].tries + 1]
  <2>1. job' = [job EXCEPT ![s] = new]
    BY <1>2 DEF TryAgain
  <2>2. new.at = l
    BY DEF Rest
  <2> HIDE DEF new
  <2> QED
    BY <2>1, <2>2 DEF TypeOK
<1> QED
  BY <1>1, <1>2

LEMMA PairOf ==
  ASSUME NEW p \in Uids \X Uids
  PROVE  {p[1], p[2]} \in Pairs /\ <<p[2], p[1]>> \in Uids \X Uids
<1>1. p[1] \in Uids /\ p[2] \in Uids
  OBVIOUS
<1>2. \E a, b \in Uids : {p[1], p[2]} = {a, b}
  BY <1>1
<1> QED
  BY <1>1, <1>2 DEF Pairs
-----------------------------------------------------------------------------
(* One chat per pair *)

\* A thread's id that is not stored yet.
Holds(s) == At(s, "private") \/ At(s, "insert")

\* What makes OneChatPerPair inductive: ids are handed out once, to a stored chat or to one
\* thread that is about to store it, and a snapshot shows nothing that has changed since.
IdsAreFresh ==
  /\ \A p \in Pairs : priv[p] <= lastThread
  /\ \A s \in Servers : Holds(s) =>
       /\ job[s].id # 0 /\ job[s].id <= lastThread
       /\ \A p \in Pairs : priv[p] # job[s].id
       /\ \A o \in Servers \ {s} : Holds(o) => job[o].id # job[s].id

ViewsAgree == \A c \in Conns, p \in Pairs :
  view[c] # NoView /\ view[c][p] # 0 => view[c][p] = priv[p]

ChatInv == OneChatPerPair /\ IdsAreFresh /\ ViewsAgree

\* What a SELECT shows is so.
LEMMA SeenIsStored ==
  ASSUME ViewsAgree, NEW c \in Conns, NEW p \in Pairs, Seen(c, priv)[p] # 0
  PROVE  Seen(c, priv)[p] = priv[p]
  BY DEF ViewsAgree, Seen

\* A session's next snapshot agrees if the chats stored stay.
LEMMA ViewsStay ==
  ASSUME TypeOK, ViewsAgree, NEW c, \A p \in Pairs : priv[p] # 0 => priv'[p] = priv[p],
         view' \in {view, Ended(c), Opened(c, priv), Read(c, priv)},
         view' # view /\ view' # Ended(c) => priv' = priv
  PROVE  ViewsAgree'
<1>1. CASE view' = view
  BY <1>1 DEF ViewsAgree, TypeOK
<1>2. CASE view' = Ended(c)
  BY <1>2 DEF ViewsAgree, TypeOK, Ended
<1>3. CASE view' = Opened(c, priv) /\ priv' = priv
  BY <1>3 DEF ViewsAgree, TypeOK, Opened, Seen
<1> QED
  BY <1>1, <1>2, <1>3 DEF Read

\* A job that goes where no id is held; the tables of chats stay.
LEMMA IdsStay ==
  ASSUME TypeOK, IdsAreFresh, NEW s \in Servers, UNCHANGED <<priv, lastThread>>,
         \A o \in Servers \ {s} : job'[o] = job[o],
         job'[s].at \notin {"private", "insert"}
  PROVE  IdsAreFresh'
  BY DEF IdsAreFresh, Holds, At

\* The next id, and the job that takes it.
LEMMA IdTaken ==
  ASSUME TypeOK, IdsAreFresh, NEW s \in Servers, priv' = priv, lastThread' = lastThread + 1,
         \A o \in Servers \ {s} : job'[o] = job[o], job'[s].id = lastThread + 1
  PROVE  IdsAreFresh'
<1>1. \A p \in Pairs : priv[p] \in Nat /\ priv[p] <= lastThread
  BY DEF TypeOK, IdsAreFresh
<1>2. lastThread \in Nat /\ \A o \in Servers : Holds(o) => job[o].id \in Nat /\ job[o].id <= lastThread
  BY DEF TypeOK, IdsAreFresh
<1> QED
  BY <1>1, <1>2 DEF IdsAreFresh, Holds, At

\* The private_chat row: the job's id is the pair's, which had none.
LEMMA ChatStored ==
  ASSUME TypeOK, ChatInv, NEW s \in Servers, Holds(s), NEW p \in Pairs, priv[p] = 0,
         priv' = [priv EXCEPT ![p] = job[s].id], lastThread' = lastThread,
         told' = told \cup {[chat |-> p, thread |-> job[s].id]},
         \A o \in Servers \ {s} : job'[o] = job[o],
         job'[s].at \notin {"private", "insert"}
  PROVE  OneChatPerPair' /\ IdsAreFresh'
<1>0. priv \in [Pairs -> Nat] /\ job[s].id \in Nat /\ job[s].id # 0 /\ job[s].id <= lastThread
      /\ \A q \in Pairs : priv[q] # job[s].id
  BY DEF TypeOK, ChatInv, IdsAreFresh
<1>1. \A q \in Pairs : priv'[q] = IF q = p THEN job[s].id ELSE priv[q]
  BY <1>0
<1>2. \A t \in told' : t.thread # 0 /\ t.thread = priv'[t.chat]
  <2>1. \A t \in told : t.chat \in Pairs /\ t.thread # 0 /\ t.thread = priv[t.chat]
    BY DEF TypeOK, ChatInv, OneChatPerPair
  <2> QED
    BY <1>0, <1>1, <2>1
<1>3. \A q, r \in Pairs : priv'[q] # 0 /\ priv'[q] = priv'[r] => q = r
  BY <1>0, <1>1 DEF ChatInv, OneChatPerPair
<1>4. IdsAreFresh'
  BY <1>0, <1>1 DEF ChatInv, IdsAreFresh, Holds, At
<1> QED
  BY <1>2, <1>3, <1>4 DEF OneChatPerPair

\* An answer from a snapshot.
LEMMA ToldFromSnapshot ==
  ASSUME TypeOK, ChatInv, priv' = priv,
         \A t \in told' : t \in told \/ (t.thread # 0 /\ t.thread = priv[t.chat])
  PROVE  OneChatPerPair'
  BY DEF ChatInv, OneChatPerPair

LEMMA NextChats == TypeOK /\ Asked /\ ChatInv /\ [Next]_vars => ChatInv'
<1> SUFFICES ASSUME TypeOK, Asked, ChatInv, [Next]_vars
             PROVE  ChatInv'
  OBVIOUS
<1>0. /\ OneChatPerPair /\ IdsAreFresh /\ ViewsAgree
      /\ \A s \in Servers : ~At(s, "rest") => Chat(Req(s)) \in Pairs
  BY Parties DEF ChatInv, Asked
<1>j. \A s \in Servers : /\ job = [o \in Servers |-> job[o]]
                        /\ \A new : job' = [job EXCEPT ![s] = new] =>
                             job'[s] = new /\ \A o \in Servers \ {s} : job'[o] = job[o]
  BY DEF TypeOK
<1>l. \A l, r, n : /\ [Rest EXCEPT !.at = l, !.req = r].at = l
                   /\ [Rest EXCEPT !.at = l, !.req = r, !.tries = n].at = l
  BY DEF Rest
\* Steps that store no chat and hand out no id.
<1>1. ASSUME NEW s \in Servers, NEW c, UNCHANGED <<priv, lastThread, told>>,
             \A o \in Servers \ {s} : job'[o] = job[o],
             job'[s].at \notin {"private", "insert"},
             view' \in {view, Ended(c), Opened(c, priv), Read(c, priv)}
      PROVE  ChatInv'
  <2>1. ViewsAgree'
    BY <1>0, <1>1, ViewsStay
  <2>2. IdsAreFresh' /\ OneChatPerPair'
    BY <1>0, <1>1, IdsStay DEF OneChatPerPair
  <2> QED
    BY <2>1, <2>2 DEF ChatInv
<1>2. ASSUME NEW s \in Servers, NEW l \in {"auth", "chat"}, Answer(s) \/ TryAgain(s, l)
      PROVE  /\ \A o \in Servers \ {s} : job'[o] = job[o]
             /\ job'[s].at \notin {"private", "insert"}
  BY <1>2, JobEnds
<1>3. ASSUME NEW s \in Servers, NEW r \in Requests, Request(s, r)
      PROVE  ChatInv'
  <2>1. r.op \notin {"private", "insert"}
    BY DEF FriendsAssumption
  <2>2. /\ \A o \in Servers \ {s} : job'[o] = job[o]
        /\ job'[s].at \notin {"private", "insert"}
    BY <1>3, <2>1 DEF Request, TypeOK
  <2> QED
    BY <1>1, <1>3, <2>2 DEF Request, tables, session
<1>4. ASSUME NEW s \in Servers, NEW c \in Conns, ApplyInsert(s, c) \/ ApplyTimeout(s, c)
      PROVE  ChatInv'
  <2>1. /\ \A o \in Servers \ {s} : job'[o] = job[o]
        /\ job'[s].at \notin {"private", "insert"}
    BY <1>4 DEF ApplyInsert, ApplyTimeout, GoesTo, TypeOK
  <2>2. UNCHANGED <<priv, lastThread, told, view>>
    BY <1>4 DEF ApplyInsert, ApplyTimeout, tables, session
  <2> QED
    BY <1>1, <2>1, <2>2
<1>5. ASSUME NEW s \in Servers, NEW c \in Conns, AuthUpdate(s, c) \/ AuthTimeout(s, c)
      PROVE  ChatInv'
  <2>1. /\ \A o \in Servers \ {s} : job'[o] = job[o]
        /\ job'[s].at \notin {"private", "insert"}
    BY <1>2, <1>5 DEF AuthUpdate, AuthTimeout, TypeOK
  <2>2. UNCHANGED <<priv, lastThread, told>> /\ view' \in {Ended(c), Opened(c, priv)}
    BY <1>5 DEF AuthUpdate, AuthTimeout, tables, EndTx
  <2> QED
    BY <1>1, <2>1, <2>2
<1>6. ASSUME NEW s \in Servers, AcceptTimeout(s)
      PROVE  ChatInv'
  <2>1. /\ \A o \in Servers \ {s} : job'[o] = job[o]
        /\ job'[s].at \notin {"private", "insert"}
    BY <1>2, <1>6 DEF AcceptTimeout
  <2>2. UNCHANGED <<priv, lastThread, told>> /\ view' = Ended(job[s].conn)
    BY <1>6 DEF AcceptTimeout, tables, EndTx
  <2> QED
    BY <1>1, <2>1, <2>2
<1>7. ASSUME NEW s \in Servers, AcceptThread(s)
      PROVE  ChatInv'
  <2>1. /\ \A o \in Servers \ {s} : job'[o] = job[o]
        /\ job'[s].id = lastThread + 1
    BY <1>7 DEF AcceptThread, TypeOK
  <2>2. UNCHANGED <<priv, told, view>> /\ lastThread' = lastThread + 1
    BY <1>7 DEF AcceptThread, session
  <2>3. IdsAreFresh'
    BY <1>0, <2>1, <2>2, IdTaken
  <2> QED
    BY <1>0, <2>2, <2>3 DEF ChatInv, OneChatPerPair, ViewsAgree
<1>8. ASSUME NEW s \in Servers, AcceptCommit(s)
      PROVE  ChatInv'
  <2> DEFINE p == Chat(Req(s))
  <2>1. At(s, "private") /\ p \in Pairs /\ view' = Ended(job[s].conn) /\ lastThread' = lastThread
    BY <1>0, <1>8 DEF AcceptCommit, At, EndTx
  <2>2. CASE priv[p] = 0
    <3>1. /\ \A o \in Servers \ {s} : job'[o] = job[o]
          /\ job'[s].at \notin {"private", "insert"}
      <4>1. job' = [job EXCEPT ![s] = [Rest EXCEPT !.at = "locate", !.req = Req(s)]]
        BY <1>8, <2>2 DEF AcceptCommit
      <4> QED
        BY <1>j, <1>l, <4>1
    <3>2. /\ priv' = [priv EXCEPT ![p] = job[s].id]
          /\ told' = told \cup {[chat |-> p, thread |-> job[s].id]}
      BY <1>8, <2>2 DEF AcceptCommit, Tell
    <3> HIDE DEF p
    <3>3. OneChatPerPair' /\ IdsAreFresh'
      BY <2>1, <2>2, <3>1, <3>2, ChatStored DEF Holds
    <3>4. ViewsAgree'
      BY <1>0, <2>1, <2>2, <3>2, ViewsStay DEF TypeOK
    <3> QED
      BY <3>3, <3>4 DEF ChatInv
  <2>3. CASE priv[p] # 0
    <3>1. Answer(s) /\ UNCHANGED <<priv, told>>
      BY <1>8, <2>3 DEF AcceptCommit
    <3> QED
      BY <1>1, <1>2, <2>1, <3>1
  <2> QED
    BY <2>2, <2>3
<1>9. ASSUME NEW s \in Servers, NEW c \in Conns, ChatSelect(s, c)
      PROVE  ChatInv'
  <2> DEFINE p == Chat(Req(s))
  <2>1. p \in Pairs /\ priv' = priv /\ view' = Read(c, priv)
    BY <1>0, <1>9 DEF ChatSelect, At
  <2>2. CASE Seen(c, priv)[p] # 0
    <3>1. /\ told' = told \cup {[chat |-> p, thread |-> Seen(c, priv)[p]]}
          /\ lastThread' = lastThread /\ Answer(s)
      BY <1>9, <2>2 DEF ChatSelect, Tell
    <3>2. Seen(c, priv)[p] = priv[p]
      BY <1>0, <2>1, <2>2, SeenIsStored
    <3>3. OneChatPerPair'
      BY <2>1, <2>2, <3>1, <3>2, ToldFromSnapshot
    <3>4. ViewsAgree'
      BY <1>0, <2>1, ViewsStay
    <3>5. IdsAreFresh'
      BY <1>0, <1>2, <2>1, <3>1, IdsStay
    <3> QED
      BY <3>3, <3>4, <3>5 DEF ChatInv
  <2>3. CASE Seen(c, priv)[p] = 0
    <3>1. /\ lastThread' = lastThread + 1 /\ told' = told
          /\ \A o \in Servers \ {s} : job'[o] = job[o]
          /\ job'[s].id = lastThread + 1
      BY <1>9, <2>3 DEF ChatSelect, TypeOK
    <3>2. IdsAreFresh'
      BY <1>0, <2>1, <3>1, IdTaken
    <3>3. ViewsAgree'
      BY <1>0, <2>1, ViewsStay
    <3> QED
      BY <1>0, <2>1, <3>1, <3>2, <3>3 DEF ChatInv, OneChatPerPair
  <2> QED
    BY <2>2, <2>3
<1>10. ASSUME NEW s \in Servers, ChatInsert(s)
       PROVE  ChatInv'
  <2> DEFINE p == Chat(Req(s))
  <2>1. At(s, "insert") /\ p \in Pairs /\ view' = Ended(job[s].conn) /\ lastThread' = lastThread
    BY <1>0, <1>10 DEF ChatInsert, At, EndTx
  <2>2. CASE priv[p] = 0
    <3>1. /\ priv' = [priv EXCEPT ![p] = job[s].id] /\ Answer(s)
          /\ told' = told \cup {[chat |-> p, thread |-> job[s].id]}
      BY <1>10, <2>2 DEF ChatInsert, Tell
    <3> HIDE DEF p
    <3>2. OneChatPerPair' /\ IdsAreFresh'
      BY <1>2, <2>1, <2>2, <3>1, ChatStored DEF Holds
    <3>3. ViewsAgree'
      BY <1>0, <2>1, <2>2, <3>1, ViewsStay DEF TypeOK
    <3> QED
      BY <3>2, <3>3 DEF ChatInv
  <2>3. CASE priv[p] # 0
    <3>1. TryAgain(s, "chat") /\ UNCHANGED <<priv, told>>
      BY <1>10, <2>3 DEF ChatInsert
    <3> QED
      BY <1>1, <1>2, <2>1, <3>1
  <2> QED
    BY <2>2, <2>3
<1>11. ASSUME NEW s \in Servers, NEW c \in Conns, NEW last, ListRead(s, c, last)
       PROVE  ChatInv'
  <2>1. /\ UNCHANGED <<priv, lastThread>> /\ Answer(s) /\ view' = Read(c, priv)
        /\ told' = told \cup UserThreads(Req(s).from, Seen(c, priv), last)
    BY <1>11 DEF ListRead, tables
  <2>2. \A t \in UserThreads(Req(s).from, Seen(c, priv), last) : t.thread # 0 /\ t.thread = priv[t.chat]
    <3> DEFINE v == Seen(c, priv)
    <3>1. \A q \in Pairs : v[q] # 0 => v[q] = priv[q]
      BY <1>0, SeenIsStored
    <3> HIDE DEF v
    <3>2. \A t \in UserThreads(Req(s).from, v, last) :
            \E q \in Pairs : t = [chat |-> q, thread |-> v[q]] /\ v[q] # 0
      BY DEF UserThreads
    <3>3. \A t \in UserThreads(Req(s).from, v, last) : t.thread # 0 /\ t.thread = priv[t.chat]
      BY <3>1, <3>2
    <3> QED
      BY <3>3 DEF v
  <2>3. OneChatPerPair'
    BY <2>1, <2>2, ToldFromSnapshot
  <2>4. ViewsAgree' /\ IdsAreFresh'
    BY <1>0, <1>2, <2>1, ViewsStay, IdsStay
  <2> QED
    BY <2>3, <2>4 DEF ChatInv
<1>12. ASSUME NEW s \in Servers, NEW c \in Conns, OtherRead(s, c)
       PROVE  ChatInv'
  <2>1. UNCHANGED <<priv, lastThread, told>> /\ Answer(s) /\ view' = Read(c, priv)
    BY <1>12 DEF OtherRead, tables
  <2> QED
    BY <1>1, <1>2, <2>1
<1>13. ASSUME NEW s \in Servers, Locate(s)
       PROVE  ChatInv'
  <2>1. /\ \A o \in Servers \ {s} : job'[o] = job[o]
        /\ job'[s].at \notin {"private", "insert"}
    BY <1>2, <1>13 DEF Locate, TypeOK
  <2> QED
    BY <1>1, <1>13, <2>1 DEF Locate, tables, session
<1>14. ASSUME NEW s \in Servers, NotifyAddFriend(s) \/ NotifyAuthFriend(s) \/ NotifyTextChatMsg(s)
       PROVE  ChatInv'
  <2>1. Answer(s) /\ UNCHANGED <<tables, session, told>>
    BY <1>14 DEF NotifyAddFriend, NotifyAuthFriend, NotifyTextChatMsg, Notify
  <2> QED
    BY <1>1, <1>2, <2>1 DEF tables, session
<1>15. ASSUME NEW c, UNCHANGED <<priv, lastThread, told, job>>, view' \in {view, Ended(c)}
       PROVE  ChatInv'
  <2>1. ViewsAgree'
    BY <1>0, <1>15, ViewsStay
  <2> QED
    BY <1>0, <1>15, <2>1 DEF ChatInv, OneChatPerPair, IdsAreFresh, Holds, At
<1>16. CASE (\E c \in Conns : Replace(c)) \/ (\E u \in Uids, w \in Servers \cup {None} : Move(u, w)) \/ UNCHANGED vars
  BY <1>15, <1>16 DEF Replace, EndTx, Move, tables, session, vars
<1>17. ASSUME NEW s \in Servers, Handle(s)
       PROVE  ChatInv'
  <2>1. CASE AddFriendApply(s)
    BY <1>4, <1>14, <2>1 DEF AddFriendApply
  <2>2. CASE AuthFriendApply(s)
    BY <1>5, <1>6, <1>7, <1>8, <1>14, <2>2 DEF AuthFriendApply
  <2>3. CASE DealChatTextMsg(s)
    BY <1>13, <1>14, <2>3 DEF DealChatTextMsg
  <2>4. CASE CreatePrivateChat(s) \/ GetUserThreads(s) \/ LoadChatMsg(s)
    BY <1>9, <1>10, <1>11, <1>12, <2>4 DEF CreatePrivateChat, GetUserThreads, LoadChatMsg
  <2> QED
    BY <1>17, <2>1, <2>2, <2>3, <2>4 DEF Handle
<1> QED
  BY <1>3, <1>16, <1>17 DEF Next

\* Two users have one private chat, and every answer that names a thread for them
\* names that one, from whatever snapshot it was read and whoever created it.
THEOREM OneChat == Spec => []OneChatPerPair
<1>1. Init => ChatInv
  BY DEF Init, SessionInit, ChatInv, OneChatPerPair, IdsAreFresh, ViewsAgree, Holds, At, Rest
<1>2. ChatInv => OneChatPerPair
  BY DEF ChatInv
<1> QED
  BY <1>1, <1>2, TypeCorrect, NextChats, PTL DEF Spec
-----------------------------------------------------------------------------
(* Acceptances *)

\* The two halves of AcceptanceIsWhole, and what makes the second inductive: only an
\* acceptance that was committed goes on to notify.
Accepted(p) == apply[p] = "done" \/ p \in friend
Whole == \A p \in Uids \X Uids : Accepted(p) =>
  /\ {p, <<p[2], p[1]>>} \subseteq friend /\ priv[{p[1], p[2]}] # 0
  /\ apply[p] = "done" \/ apply[<<p[2], p[1]>>] = "done"
Heard == \A n \in notified : n.op = "auth" => <<n.from, n.to>> \in friend

Announced == \A s \in Servers :
  (At(s, "locate") \/ At(s, "notify")) /\ Req(s).op = "auth" => <<Req(s).from, Req(s).to>> \in friend

AcceptInv == Whole /\ Heard /\ Announced

\* Steps that store no acceptance.
LEMMA WholeStays ==
  ASSUME Whole, friend' = friend, \A p \in Uids \X Uids : apply'[p] = "done" <=> apply[p] = "done",
         \A q \in Pairs : priv[q] # 0 => priv'[q] # 0
  PROVE  Whole'
<1> SUFFICES ASSUME NEW p \in Uids \X Uids, Accepted(p)'
             PROVE  /\ {p, <<p[2], p[1]>>} \subseteq friend' /\ priv'[{p[1], p[2]}] # 0
                    /\ apply'[p] = "done" \/ apply'[<<p[2], p[1]>>] = "done"
  BY DEF Whole
<1>1. {p[1], p[2]} \in Pairs /\ <<p[2], p[1]>> \in Uids \X Uids
  BY PairOf
<1>2. Accepted(p)
  BY DEF Accepted
<1> QED
  BY <1>1, <1>2 DEF Whole

LEMMA AnnouncedStays ==
  ASSUME Announced, friend \subseteq friend', NEW s \in Servers, \A o \in Servers \ {s} : job'[o] = job[o],
         \/ job'[s].at \notin {"locate", "notify"}
         \/ /\ job'[s].req = Req(s)
            /\ At(s, "locate") \/ Req(s).op # "auth" \/ <<Req(s).from, Req(s).to>> \in friend'
         \/ job'[s].req.op # "auth"
  PROVE  Announced'
  BY DEF Announced, At, Req

LEMMA NextAccepted == TypeOK /\ Asked /\ ChatInv /\ AcceptInv /\ [Next]_vars => AcceptInv'
<1> SUFFICES ASSUME TypeOK, Asked, ChatInv, AcceptInv, [Next]_vars
             PROVE  AcceptInv'
  OBVIOUS
<1>0. Whole /\ Heard /\ Announced /\ priv \in [Pairs -> Nat] /\ apply \in [Uids \X Uids -> {"none", "new", "done"}]
  BY DEF AcceptInv, TypeOK
<1>j. \A s \in Servers : /\ job = [o \in Servers |-> job[o]]
                         /\ \A new : job' = [job EXCEPT ![s] = new] =>
                              job'[s] = new /\ \A o \in Servers \ {s} : job'[o] = job[o]
  BY DEF TypeOK
<1>l. \A l, r, n : /\ [Rest EXCEPT !.at = l, !.req = r].at = l
                   /\ [Rest EXCEPT !.at = l, !.req = r].req = r
                   /\ [Rest EXCEPT !.at = l, !.req = r, !.tries = n].at = l
  BY DEF Rest
<1>1. ASSUME NEW s \in Servers, NEW l \in {"auth", "chat"}, Answer(s) \/ TryAgain(s, l)
      PROVE  /\ \A o \in Servers \ {s} : job'[o] = job[o]
             /\ job'[s].at \notin {"locate", "notify"}
  BY <1>1, JobEnds
\* Steps that store no acceptance and notify nobody.
<1>2. ASSUME NEW s \in Servers, \A o \in Servers \ {s} : job'[o] = job[o],
             \/ job'[s].at \notin {"locate", "notify"}
             \/ job'[s].req = Req(s) /\ (At(s, "locate") \/ Req(s).op # "auth")
             \/ job'[s].req.op # "auth",
             friend' = friend, notified' = notified,
             \A p \in Uids \X Uids : apply'[p] = "done" <=> apply[p] = "done",
             \A q \in Pairs : priv[q] # 0 => priv'[q] # 0
      PROVE  AcceptInv'
  <2>1. Announced'
    BY <1>0, <1>2, AnnouncedStays
  <2>2. Whole' /\ Heard'
    BY <1>0, <1>2, WholeStays DEF Heard
  <2> QED
    BY <2>1, <2>2 DEF AcceptInv
<1>3. ASSUME NEW s \in Servers, NEW r \in Requests, Request(s, r)
      PROVE  AcceptInv'
  <2>1. /\ \A o \in Servers \ {s} : job'[o] = job[o]
        /\ job'[s].at \notin {"locate", "notify"} \/ job'[s].req.op # "auth"
    <3>1. r.op \notin {"locate", "notify"}
      BY DEF FriendsAssumption
    <3> QED
      BY <1>3, <3>1 DEF Request, TypeOK
  <2> QED
    BY <1>2, <1>3, <2>1 DEF Request, tables
<1>4. ASSUME NEW s \in Servers, NEW c \in Conns, ApplyInsert(s, c) \/ ApplyTimeout(s, c)
      PROVE  AcceptInv'
  <2>1. /\ \A o \in Servers \ {s} : job'[o] = job[o]
        /\ job'[s].req = Req(s)
    BY <1>4 DEF ApplyInsert, ApplyTimeout, GoesTo, TypeOK, Req
  <2>2. Req(s).op # "auth"
    BY <1>4 DEF Asked, ApplyInsert, ApplyTimeout
  <2>3. UNCHANGED <<friend, priv, notified>>
    BY <1>4 DEF ApplyInsert, ApplyTimeout, tables
  <2>4. \A p \in Uids \X Uids : apply'[p] = "done" <=> apply[p] = "done"
    BY <1>0, <1>4 DEF ApplyInsert, ApplyTimeout, tables
  <2> QED
    BY <1>2, <2>1, <2>2, <2>3, <2>4
<1>5. ASSUME NEW s \in Servers, NEW c \in Conns, AuthUpdate(s, c) \/ AuthTimeout(s, c)
      PROVE  AcceptInv'
  <2>1. /\ \A o \in Servers \ {s} : job'[o] = job[o]
        /\ job'[s].at \notin {"locate", "notify"}
    BY <1>1, <1>5 DEF AuthUpdate, AuthTimeout, TypeOK
  <2>2. UNCHANGED <<tables, notified>>
    BY <1>5 DEF AuthUpdate, AuthTimeout
  <2> QED
    BY <1>2, <2>1, <2>2 DEF tables
<1>6. ASSUME NEW s \in Servers, AcceptThread(s) \/ AcceptTimeout(s)
      PROVE  AcceptInv'
  <2>1. /\ \A o \in Servers \ {s} : job'[o] = job[o]
        /\ job'[s].at \notin {"locate", "notify"}
    BY <1>1, <1>6 DEF AcceptThread, AcceptTimeout, TypeOK
  <2>2. UNCHANGED <<apply, friend, priv, notified>>
    BY <1>6 DEF AcceptThread, AcceptTimeout, tables
  <2> QED
    BY <1>2, <2>1, <2>2
<1>7. ASSUME NEW s \in Servers, AcceptCommit(s)
      PROVE  AcceptInv'
  <2> DEFINE c == job[s].conn
             p == Chat(Req(s))
             mine == <<Req(s).from, Req(s).to>>
             theirs == <<Req(s).to, Req(s).from>>
  <2>0. /\ At(s, "private") /\ Req(s) \in Requests /\ p \in Pairs /\ notified' = notified
        /\ Req(s).from \in Uids /\ Req(s).to \in Uids
    BY <1>7, Parties DEF AcceptCommit, Asked, At
  <2>1. CASE priv[p] = 0
    <3>1. /\ apply' = [Stored(c) EXCEPT ![theirs] = "done"]
          /\ friend' = friend \cup {mine, theirs}
          /\ priv' = [priv EXCEPT ![p] = job[s].id]
          /\ job' = [job EXCEPT ![s] = [Rest EXCEPT !.at = "locate", !.req = Req(s)]]
      BY <1>7, <2>1 DEF AcceptCommit, Applied
    <3>2. Announced'
      <4>1. job'[s].req = Req(s) /\ \A o \in Servers \ {s} : job'[o] = job[o]
        BY <1>j, <1>l, <3>1
      <4>2. mine \in friend' /\ friend \subseteq friend'
        BY <3>1
      <4> QED
        BY <1>0, <4>1, <4>2, AnnouncedStays
    <3>3. Heard'
      BY <1>0, <2>0, <3>1 DEF Heard
    <3>4. /\ theirs \in Uids \X Uids /\ mine \in Uids \X Uids
          /\ \A q \in Uids \X Uids : apply'[q] = "done" <=> q = theirs \/ apply[q] = "done"
      BY <1>0, <2>0, <3>1 DEF Stored
    <3>5. \A q \in Pairs : priv'[q] # 0 <=> priv[q] # 0 \/ q = p
      BY <1>0, <2>0, <3>1 DEF ChatInv, IdsAreFresh, Holds
    <3>6. ASSUME NEW q \in Uids \X Uids, Accepted(q)'
          PROVE  /\ {q, <<q[2], q[1]>>} \subseteq friend' /\ priv'[{q[1], q[2]}] # 0
                 /\ apply'[q] = "done" \/ apply'[<<q[2], q[1]>>] = "done"
      <4>1. {q[1], q[2]} \in Pairs /\ <<q[2], q[1]>> \in Uids \X Uids
        BY PairOf
      <4>2. CASE q \in {mine, theirs}
        <5>1. {q, <<q[2], q[1]>>} = {mine, theirs} /\ {q[1], q[2]} = p
          BY <4>2 DEF Chat
        <5> QED
          BY <2>0, <3>1, <3>4, <3>5, <4>2, <5>1
      <4>3. CASE q \notin {mine, theirs}
        <5>1. Accepted(q)
          BY <3>1, <3>4, <3>6, <4>3 DEF Accepted
        <5> QED
          BY <1>0, <3>1, <3>4, <3>5, <4>1, <5>1 DEF Whole
      <4> QED
        BY <4>2, <4>3
    <3>7. Whole'
      BY <3>6 DEF Whole
    <3> QED
      BY <3>2, <3>3, <3>7 DEF AcceptInv
  <2>2. CASE priv[p] # 0
    <3>1. Answer(s) /\ UNCHANGED <<apply, friend, priv>>
      BY <1>7, <2>2 DEF AcceptCommit
    <3> QED
      BY <1>1, <1>2, <2>0, <3>1
  <2> QED
    BY <2>1, <2>2
<1>8. ASSUME NEW s \in Servers, NEW c \in Conns, ChatSelect(s, c)
      PROVE  AcceptInv'
  <2>1. /\ \A o \in Servers \ {s} : job'[o] = job[o]
        /\ job'[s].at \notin {"locate", "notify"}
    BY <1>1, <1>8 DEF ChatSelect, TypeOK
  <2>2. UNCHANGED <<apply, friend, priv, notified>>
    BY <1>8 DEF ChatSelect
  <2> QED
    BY <1>2, <2>1, <2>2
<1>9. ASSUME NEW s \in Servers, ChatInsert(s)
      PROVE  AcceptInv'
  <2> DEFINE p == Chat(Req(s))
  <2>1. /\ \A o \in Servers \ {s} : job'[o] = job[o]
        /\ job'[s].at \notin {"locate", "notify"}
    BY <1>1, <1>9 DEF ChatInsert
  <2>2. friend' = friend /\ notified' = notified
    BY <1>9 DEF ChatInsert
  <2>3. /\ apply' = Stored(job[s].conn) \/ apply' = apply
        /\ priv' = priv \/ (priv[p] = 0 /\ priv' = [priv EXCEPT ![p] = job[s].id])
    BY <1>9 DEF ChatInsert
  <2>4. \A q \in Uids \X Uids : apply'[q] = "done" <=> apply[q] = "done"
    BY <1>0, <2>3 DEF Stored
  <2>5. \A q \in Pairs : priv[q] # 0 => priv'[q] # 0
    BY <1>0, <2>3
  <2> QED
    BY <1>2, <2>1, <2>2, <2>4, <2>5
<1>10. ASSUME NEW s \in Servers, NEW c \in Conns, NEW last, ListRead(s, c, last) \/ OtherRead(s, c)
       PROVE  AcceptInv'
  <2>1. Answer(s) /\ UNCHANGED <<tables, notified>>
    BY <1>10 DEF ListRead, OtherRead
  <2> QED
    BY <1>1, <1>2, <2>1 DEF tables
<1>11. ASSUME NEW s \in Servers, Locate(s)
       PROVE  AcceptInv'
  <2>1. /\ \A o \in Servers \ {s} : job'[o] = job[o]
        /\ job'[s].at \notin {"locate", "notify"} \/ (job'[s].req = Req(s) /\ At(s, "locate"))
    BY <1>1, <1>11 DEF Locate, TypeOK, Req
  <2> QED
    BY <1>2, <1>11, <2>1 DEF Locate, tables
<1>12. ASSUME NEW s \in Servers, NotifyAddFriend(s) \/ NotifyAuthFriend(s) \/ NotifyTextChatMsg(s)
       PROVE  AcceptInv'
  <2>1. At(s, "notify") /\ Answer(s) /\ UNCHANGED tables /\ notified' \subseteq notified \cup {Req(s)}
    BY <1>12 DEF NotifyAddFriend, NotifyAuthFriend, NotifyTextChatMsg, Notify
  <2>2. Whole' /\ Announced'
    BY <1>0, <1>1, <2>1, WholeStays, AnnouncedStays DEF tables
  <2>3. Heard'
    BY <1>0, <2>1 DEF Heard, Announced, tables
  <2> QED
    BY <2>2, <2>3 DEF AcceptInv
<1>13. CASE UNCHANGED <<apply, friend, priv, notified, job>>
  BY <1>0, <1>13 DEF AcceptInv, Whole, Accepted, Heard, Announced, At, Req
<1>14. ASSUME NEW s \in Servers, Handle(s)
       PROVE  AcceptInv'
  <2>1. CASE AddFriendApply(s)
    BY <1>4, <1>12, <2>1 DEF AddFriendApply
  <2>2. CASE AuthFriendApply(s)
    BY <1>5, <1>6, <1>7, <1>12, <2>2 DEF AuthFriendApply
  <2>3. CASE DealChatTextMsg(s)
    BY <1>11, <1>12, <2>3 DEF DealChatTextMsg
  <2>4. CASE CreatePrivateChat(s) \/ GetUserThreads(s) \/ LoadChatMsg(s)
    BY <1>8, <1>9, <1>10, <2>4 DEF CreatePrivateChat, GetUserThreads, LoadChatMsg
  <2> QED
    BY <1>14, <2>1, <2>2, <2>3, <2>4 DEF Handle
<1> QED
  BY <1>3, <1>13, <1>14 DEF Next, Replace, Move, tables, vars

\* An acceptance is stored as a whole or not at all, also when the transaction was
\* tried again or met another one, and its applicant hears only of a stored one.
THEOREM AcceptedWhole == Spec => []AcceptanceIsWhole
<1>1. Init => AcceptInv
  BY DEF Init, AcceptInv, Whole, Accepted, Heard, Announced, At, Rest
<1>2. AcceptInv => AcceptanceIsWhole
  BY DEF AcceptInv, AcceptanceIsWhole, Whole, Accepted, Heard
<1>3. Init => ChatInv
  BY DEF Init, SessionInit, ChatInv, OneChatPerPair, IdsAreFresh, ViewsAgree, Holds, At, Rest
<1> QED
  BY <1>1, <1>2, <1>3, TypeCorrect, NextChats, NextAccepted, PTL DEF Spec
=============================================================================
