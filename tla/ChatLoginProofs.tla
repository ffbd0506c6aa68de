--------------------------- MODULE ChatLoginProofs ---------------------------
(***************************************************************************)
(* Theorems of ChatLogin, for any servers, users, connections, restarts,   *)
(* lost commands and failed kicks.                                         *)
(***************************************************************************)
EXTENDS ChatLogin, SequenceTheorems, TLAPS

Requests    == Sessions \X (Users \cup {NoUser})
LoginStates == [pc : {"idle", "getIp", "kickHere", "kickThere", "kickWait",
                      "setIp", "setSession", "setMgr", "release", "reply"},
                to : Servers \cup {NoServer}]
DealPlaces  == {"no", "acquire", "check", "delSession", "delIp", "clear", "release"}
DealStates  == [pc : DealPlaces, s : Sessions \cup {NoSession}, u : Users \cup {NoUser}]

\* The names of threads.
LEMMA ThreadNames ==
  /\ \A s \in Sessions : Io(s) \in Dealers /\ \A r \in Sessions : Io(r) = Io(s) => r = s
  /\ \A v \in Servers : /\ Main(v) \in Dealers /\ Worker(v) \in Threads /\ Worker(v) \notin Dealers
                        /\ \A s \in Sessions : Io(s) # Main(v)
                        /\ \A w \in Servers : /\ Main(v) = Main(w) => v = w
                                              /\ Worker(v) = Worker(w) => v = w
  /\ Dealers \subseteq Threads
  BY DEF Io, Main, Worker, Dealers, Threads

\* A queue of requests: append at the end, pop at the head.
Items(q) == {q[i] : i \in DOMAIN q}

LEMMA QueueAppend ==
  ASSUME NEW q \in Seq(Requests), NEW m \in Requests
  PROVE  /\ Append(q, m) \in Seq(Requests) /\ Append(q, m) # <<>>
         /\ Items(Append(q, m)) = Items(q) \cup {m}
         /\ q # <<>> => Head(Append(q, m)) = Head(q)
<1>1. /\ Append(q, m) \in Seq(Requests) /\ Append(q, m) # <<>>
      /\ Len(Append(q, m)) = Len(q) + 1 /\ Len(q) \in Nat
      /\ \A i \in 1..Len(q) : Append(q, m)[i] = q[i]
      /\ Append(q, m)[Len(q) + 1] = m
      /\ DOMAIN Append(q, m) = 1..(Len(q) + 1) /\ DOMAIN q = 1..Len(q)
  BY AppendProperties, LenProperties
<1>2. Items(Append(q, m)) = Items(q) \cup {m}
  <2>1. Items(Append(q, m)) \subseteq Items(q) \cup {m}
    BY <1>1 DEF Items
  <2>2. \A i \in 1..Len(q) : i \in 1..(Len(q) + 1)
    BY <1>1
  <2>3. Items(q) \subseteq Items(Append(q, m))
    BY <1>1, <2>2 DEF Items
  <2>4. m \in Items(Append(q, m))
    BY <1>1 DEF Items
  <2> QED
    BY <2>1, <2>3, <2>4
<1>3. q # <<>> => Head(Append(q, m)) = Head(q)
  <2>1. q # <<>> => 1 \in 1..Len(q)
    BY <1>1, EmptySeq
  <2> QED
    BY <1>1, <2>1
<1> QED
  BY <1>1, <1>2, <1>3

LEMMA QueuePop ==
  ASSUME NEW q \in Seq(Requests), q # <<>>
  PROVE  /\ Tail(q) \in Seq(Requests) /\ Items(Tail(q)) \subseteq Items(q)
         /\ Head(q) \in Items(q) /\ Head(q) \in Requests
         /\ Head(q)[1] \in Sessions /\ Head(q)[2] \in Users \cup {NoUser}
         /\ Head(q) = <<Head(q)[1], Head(q)[2]>>
<1>1. /\ Tail(q) \in Seq(Requests) /\ Len(Tail(q)) = Len(q) - 1
      /\ \A i \in 1..Len(Tail(q)) : Tail(q)[i] = q[i + 1]
      /\ Head(q) \in Requests
  BY HeadTailProperties
<1>2. Len(q) \in Nat /\ DOMAIN q = 1..Len(q) /\ DOMAIN Tail(q) = 1..Len(Tail(q))
  BY <1>1, LenProperties
<1>3. Items(Tail(q)) \subseteq Items(q)
  BY <1>1, <1>2 DEF Items
<1>4. Head(q) \in Items(q)
  <2>1. Len(q) > 0
    BY <1>1, <1>2
  <2> QED
    BY <1>2, <2>1 DEF Items
<1> QED
  BY <1>1, <1>3, <1>4 DEF Requests

-----------------------------------------------------------------------------
(* Type correctness *)

\* A handler past the lock has a login at the head of its queue, and the server it
\* is about to ask for a kick; a clean-up under way is of a connection.
Busy == \A v \in Servers : login[v].pc # "idle" =>
  /\ logicQ[v] # <<>> /\ LoginUser(v) \in Users
  /\ login[v].pc \in {"kickThere", "kickWait"} => login[v].to \in Servers
Dealt == \A t \in Dealers :
  /\ deal[t].pc = "no" => deal[t] = NotDealing
  /\ deal[t].pc # "no" => deal[t].s \in Sessions
  /\ deal[t].pc \notin {"no", "clear"} => deal[t].u \in Users

Typed == TypeOK /\ Busy /\ Dealt

LEMMA InitTyped == Init => Typed
<1> SUFFICES ASSUME Init PROVE Typed
  OBVIOUS
<1>1. Busy /\ Dealt
  BY DEF Init, Busy, Dealt, NotDealing, AtRest
<1>2. Locks!TypeOK
  BY DEF Init, Locks!Init, Locks!TypeOK
<1>3. crashes \in Nat /\ sent \in [Sessions -> 0..MaxMsgs]
  BY ParameterAssumption DEF Init
<1>4. <<>> \in Seq(Requests) /\ NotDealing \in DealStates /\ AtRest \in LoginStates
  BY EmptySeq DEF NotDealing, AtRest, DealStates, DealPlaces, LoginStates
<1>5. /\ logicQ \in [Servers -> Seq(Requests)] /\ deal \in [Dealers -> DealStates]
      /\ login \in [Servers -> LoginStates]
  BY <1>4 DEF Init
<1> QED
  BY <1>1, <1>2, <1>3, <1>5
  DEF Init, Typed, TypeOK, Requests, DealStates, DealPlaces, LoginStates

\* Connections.
USE DEF Locks!TypeOK

LEMMA ConnectionTyped ==
  ASSUME Typed, NEW s \in Sessions,
         \/ \E v \in Servers : HandleAccept(v, s)
         \/ PeerGone(s) \/ ReadTooLong(s)
  PROVE  TypeOK'
<1>1. ASSUME NEW v \in Servers, HandleAccept(v, s) PROVE TypeOK'
  <2>1. /\ userId' \in [Sessions -> Users \cup {NoUser}]
        /\ heard' \in [Sessions -> {"usual", "future"}]
    BY <1>1, ParameterAssumption DEF HandleAccept, Typed, TypeOK
  <2> QED
    BY <1>1, <2>1 DEF HandleAccept, Typed, TypeOK, server, redis, rpc
<1>2. CASE PeerGone(s)
  BY <1>2 DEF PeerGone, Typed, TypeOK, server, redis, rpc
<1>3. CASE ReadTooLong(s)
  <2>1. sent' \in [Sessions -> 0..MaxMsgs]
    BY <1>3, ParameterAssumption DEF ReadTooLong, Typed, TypeOK
  <2>2. sessions' \in [Servers -> SUBSET Sessions] /\ reading' \in [Sessions -> BOOLEAN]
    BY <1>3 DEF ReadTooLong, ClearSession, Typed, TypeOK
  <2> QED
    BY <1>3, <2>1, <2>2 DEF ReadTooLong, Typed, TypeOK, server, redis, rpc
<1> QED
  BY <1>1, <1>2, <1>3

LEMMA WriteTyped ==
  ASSUME Typed, NEW s \in Sessions, WriteDone(s)
  PROVE  TypeOK'
<1>1. queued[s] \in Nat /\ queued[s] > 0
  BY DEF WriteDone, Typed, TypeOK
<1>2. /\ queued' \in [Sessions -> Nat] /\ writing' \in [Sessions -> {"no", "started", "doomed"}]
      /\ \A r \in Sessions : writing'[r] # "no" => queued'[r] > 0
  <2>1. queued' = [queued EXCEPT ![s] = @ - 1] /\ queued \in [Sessions -> Nat]
    BY DEF WriteDone, Typed, TypeOK
  <2>2. writing' \in [Sessions -> {"no", "started", "doomed"}]
    BY DEF WriteDone, NewWrite, Typed, TypeOK
  <2>3. writing'[s] # "no" => queued[s] > 1
    BY DEF WriteDone, Typed, TypeOK
  <2>4. \A r \in Sessions \ {s} : writing'[r] = writing[r] /\ queued'[r] = queued[r]
    BY <2>1 DEF WriteDone, Typed, TypeOK
  <2> QED
    <3>1. queued' \in [Sessions -> Nat] /\ queued'[s] = queued[s] - 1
      BY <1>1, <2>1
    <3>2. ASSUME NEW r \in Sessions, writing'[r] # "no" PROVE queued'[r] > 0
      <4>1. CASE r = s
        BY <1>1, <2>3, <3>1, <3>2, <4>1
      <4>2. CASE r # s
        BY <2>4, <3>2, <4>2 DEF Typed, TypeOK
      <4> QED
        BY <4>1, <4>2
    <3> QED
      BY <2>2, <3>1, <3>2
<1> QED
  BY <1>2 DEF WriteDone, Typed, TypeOK, server, redis, rpc

\* A clean-up begins; a lock is taken or given back.
LEMMA StartTyped ==
  ASSUME Typed, NEW s \in Sessions, NEW t \in Dealers
  PROVE  [deal EXCEPT ![t] = Dealing(s)] \in
           [Dealers -> [pc : {"no", "acquire", "check", "delSession", "delIp", "clear",
                              "release"},
                        s : Sessions \union {NoSession}, u : Users \union {NoUser}]]
<1>1. deal \in [Dealers -> DealStates] /\ userId[s] \in Users \cup {NoUser}
  BY DEF Typed, TypeOK, DealStates, DealPlaces
<1>2. Dealing(s) \in DealStates
  BY <1>1 DEF Dealing, DealStates, DealPlaces
<1>3. [deal EXCEPT ![t] = Dealing(s)] \in [Dealers -> DealStates]
  BY <1>1, <1>2
<1> QED
  BY <1>3 DEF DealStates, DealPlaces

LEMMA LockTyped ==
  ASSUME Locks!TypeOK, NEW t \in Threads, NEW u, Acquired(t, u) \/ Released(t, u)
  PROVE  Locks!TypeOK'
  BY DEF Acquired, Released, Locks!Acquire, Locks!Release, Locks!Fresh

\* A command that is lost.
LEMMA LossTyped ==
  ASSUME Typed, NEW c \in Commands, NEW u \in Users, Lose(c, u)
  PROVE  lost' \subseteq Commands \X Users
  BY DEF Lose, Typed, TypeOK

LEMMA ReadTyped ==
  ASSUME Typed, NEW s \in Sessions,
         (\E u \in Users \cup {NoUser} : ReadRequest(s, u)) \/ PostWaiting(s)
         \/ ReadError(s) \/ WriteError(s)
  PROVE  TypeOK'
<1>1. ASSUME NEW u \in Users \cup {NoUser}, ReadRequest(s, u) PROVE TypeOK'
  <2>1. sent' \in [Sessions -> 0..MaxMsgs]
    BY <1>1, ParameterAssumption DEF ReadRequest, Typed, TypeOK
  <2>2. logicQ' \in [Servers -> Seq(Requests)] /\ posting' \subseteq Requests
    <3>1. /\ logicQ' = logicQ \/ logicQ' = [logicQ EXCEPT ![srv[s]] = Append(@, <<s, u>>)]
          /\ posting' \in {posting, posting \cup {<<s, u>>}}
      BY <1>1 DEF ReadRequest, PostMsgToQue
    <3>2. <<s, u>> \in Requests
      BY DEF Requests
    <3>3. logicQ \in [Servers -> Seq(Requests)] /\ posting \subseteq Requests
      BY DEF Typed, TypeOK, Requests
    <3>4. \A q \in Seq(Requests) : Append(q, <<s, u>>) \in Seq(Requests)
      BY <3>2, AppendProperties
    <3> QED
      BY <3>1, <3>2, <3>3, <3>4
  <2> QED
    BY <1>1, <2>1, <2>2 DEF ReadRequest, Typed, TypeOK, Requests, rpc, redis
<1>2. CASE PostWaiting(s)
  <2>1. logicQ' \in [Servers -> Seq(Requests)] /\ posting' \subseteq Requests
    <3>1. PICK m \in posting : /\ logicQ' = [logicQ EXCEPT ![srv[s]] = Append(@, m)]
                               /\ posting' = posting \ {m}
      BY <1>2 DEF PostWaiting
    <3>3. logicQ \in [Servers -> Seq(Requests)] /\ posting \subseteq Requests
      BY DEF Typed, TypeOK, Requests
    <3>4. \A q \in Seq(Requests) : Append(q, m) \in Seq(Requests)
      BY <3>3, AppendProperties
    <3> QED
      BY <3>1, <3>3, <3>4
  <2> QED
    BY <1>2, <2>1 DEF PostWaiting, Typed, TypeOK, Requests, connection, rpc, redis
<1>3. CASE ReadError(s)
  BY <1>3, StartTyped DEF ReadError, CloseAndDeal, Typed, TypeOK, rpc, redis
<1>4. CASE WriteError(s)
  BY <1>4, StartTyped DEF WriteError, CloseAndDeal, Typed, TypeOK, rpc, redis
<1> QED
  BY <1>1, <1>2, <1>3, <1>4

\* What the steps of the clean-up have in common.
LEMMA DealSteps ==
  ASSUME NEW t \in Dealers, Deal(t)
  PROVE  /\ UNCHANGED <<connection, accepted, expired, userMgr, logicQ, posting, login, rpc, crashes>>
         /\ sessions' = sessions \/ ClearSession(srv[deal[t].s], deal[t].s)
         /\ deal' = [deal EXCEPT ![t] = NotDealing] \/ \E pc \in DealPlaces : DealGoesTo(t, pc)
         /\ uip' = uip \/ uip' = [uip EXCEPT ![deal[t].u] = NoServer]
         /\ usession' = usession \/ usession' = [usession EXCEPT ![deal[t].u] = NoSession]
         /\ UNCHANGED <<lock, ident>> \/ Acquired(t, deal[t].u) \/ Released(t, deal[t].u)
         /\ \/ lost' = lost
            \/ /\ deal[t].pc \notin {"no", "clear"}
               /\ \E c \in Commands : Lose(c, deal[t].u)
<1>1. CASE DealLock(t)
  BY <1>1 DEF DealLock, DealKeeps, DealPlaces, NotAcquired
<1>2. CASE DealCheck(t)
  BY <1>2 DEF DealCheck, DealKeeps, DealPlaces, Commands
<1>3. CASE DealDelSession(t)
  BY <1>3 DEF DealDelSession, DelSession, DealKeeps, DealPlaces, Commands
<1>4. CASE DealDelIp(t)
  BY <1>4 DEF DealDelIp, DelIp, DealKeeps, DealPlaces, Commands
<1>5. CASE DealClear(t)
  BY <1>5 DEF DealClear, DealKeeps, DealPlaces, redis
<1>6. CASE DealRelease(t)
  BY <1>6 DEF DealRelease, Released, DealKeeps, DealPlaces, Commands
<1> QED
  BY <1>1, <1>2, <1>3, <1>4, <1>5, <1>6 DEF Deal

LEMMA DealTyped ==
  ASSUME Typed, NEW t \in Dealers, Deal(t)
  PROVE  TypeOK'
<1>1. t \in Threads
  BY ThreadNames
<1>2. sessions' \in [Servers -> SUBSET Sessions]
  <2>1. sessions \in [Servers -> SUBSET Sessions]
    BY DEF Typed, TypeOK
  <2> QED
    BY <2>1, DealSteps DEF ClearSession
<1>3. deal \in [Dealers -> DealStates]
  BY DEF Typed, TypeOK, DealStates, DealPlaces
<1>4. deal' \in [Dealers -> DealStates]
  <2>1. NotDealing \in DealStates
    BY DEF NotDealing, DealStates, DealPlaces
  <2>2. ASSUME NEW pc \in DealPlaces PROVE [deal[t] EXCEPT !.pc = pc] \in DealStates
    BY <1>3 DEF DealStates
  <2> QED
    BY <1>3, <2>1, <2>2, DealSteps DEF DealGoesTo
<1>5. /\ uip' \in [Users -> Servers \cup {NoServer}]
      /\ usession' \in [Users -> Sessions \cup {NoSession}]
  <2>1. uip \in [Users -> Servers \cup {NoServer}] /\ usession \in [Users -> Sessions \cup {NoSession}]
    BY DEF Typed, TypeOK
  <2>2. /\ uip' = uip \/ uip' = [uip EXCEPT ![deal[t].u] = NoServer]
        /\ usession' = usession \/ usession' = [usession EXCEPT ![deal[t].u] = NoSession]
    BY DealSteps
  <2> QED
    BY <2>1, <2>2
<1>6. Locks!TypeOK'
  BY <1>1, DealSteps, LockTyped DEF Typed, TypeOK
<1>7. lost' \subseteq Commands \X Users
  BY DealSteps, LossTyped DEF Typed, TypeOK, Dealt
<1> QED
  BY <1>2, <1>4, <1>5, <1>6, <1>7, DealSteps
  DEF Typed, TypeOK, DealStates, DealPlaces, connection, rpc

\* The steps of the main thread.
LEMMA MainTyped ==
  ASSUME Typed, NEW v \in Servers,
         \/ InsertSession(v) \/ \E E \in SUBSET Sessions : OnTimer(v, E)
         \/ \E s \in Sessions : TimerClose(v, s) \/ TimerDeal(v, s)
  PROVE  TypeOK'
<1>1. CASE InsertSession(v)
  <2>1. /\ sessions' \in [Servers -> SUBSET Sessions]
        /\ accepted' \in [Servers -> Sessions \cup {NoSession}]
    BY <1>1 DEF InsertSession, Typed, TypeOK
  <2> QED
    BY <1>1, <2>1 DEF InsertSession, Typed, TypeOK, connection, rpc, redis
<1>2. ASSUME NEW E \in SUBSET Sessions, OnTimer(v, E) PROVE TypeOK'
  <2>1. expired' \in [Servers -> SUBSET Sessions]
    BY <1>2 DEF OnTimer, Typed, TypeOK
  <2> QED
    BY <1>2, <2>1 DEF OnTimer, Typed, TypeOK, connection, rpc, redis
<1>4. ASSUME NEW s \in Sessions, TimerClose(v, s) PROVE TypeOK'
  BY <1>4 DEF TimerClose, Typed, TypeOK, server, rpc, redis
<1>3. ASSUME NEW s \in Sessions, TimerDeal(v, s) PROVE TypeOK'
  <2>1. expired' \in [Servers -> SUBSET Sessions]
    BY <1>3 DEF TimerDeal, Typed, TypeOK
  <2>2. deal' \in [Dealers -> DealStates]
    BY <1>3, ThreadNames, StartTyped DEF TimerDeal, DealStates, DealPlaces
  <2> QED
    BY <1>3, <2>1, <2>2 DEF TimerDeal, Typed, TypeOK, connection, rpc, redis, DealStates, DealPlaces
<1> QED
  BY <1>1, <1>2, <1>3, <1>4

\* A message for a connection; the kick of the connection UserMgr has.
LEMMA SendTyped ==
  ASSUME Typed, NEW s \in Sessions, SendTo(s)
  PROVE  /\ queued' \in [Sessions -> Nat] /\ writing' \in [Sessions -> {"no", "started", "doomed"}]
         /\ \A r \in Sessions : writing'[r] # "no" => queued'[r] > 0
<1>1. /\ queued \in [Sessions -> Nat] /\ writing \in [Sessions -> {"no", "started", "doomed"}]
      /\ \A r \in Sessions : writing[r] # "no" => queued[r] > 0
  BY DEF Typed, TypeOK
<1>2. /\ queued' = [queued EXCEPT ![s] = @ + 1]
      /\ \A r \in Sessions \ {s} : writing'[r] = writing[r]
      /\ writing' \in [Sessions -> {"no", "started", "doomed"}]
  BY <1>1 DEF SendTo, NewWrite
<1> QED
  BY <1>1, <1>2

LEMMA KickTyped ==
  ASSUME Typed, NEW v \in Servers, NEW u \in Users, Kick(v, u)
  PROVE  /\ queued' \in [Sessions -> Nat] /\ writing' \in [Sessions -> {"no", "started", "doomed"}]
         /\ \A r \in Sessions : writing'[r] # "no" => queued'[r] > 0
         /\ sessions' \in [Servers -> SUBSET Sessions]
<1>1. CASE userMgr[v][u] = NoSession
  BY <1>1 DEF Kick, Typed, TypeOK
<1>2. CASE userMgr[v][u] # NoSession
  <2>1. userMgr[v][u] \in Sessions
    BY <1>2 DEF Typed, TypeOK
  <2>2. SendTo(userMgr[v][u]) /\ ClearSession(v, userMgr[v][u])
    BY <1>2 DEF Kick
  <2>3. sessions' \in [Servers -> SUBSET Sessions]
    BY <2>2 DEF ClearSession, Typed, TypeOK
  <2> QED
    BY <2>1, <2>2, <2>3, SendTyped
<1> QED
  BY <1>1, <1>2

\* The head of a queue, and what is left when it has been answered.
LEMMA HeadTyped ==
  ASSUME Typed, NEW v \in Servers, logicQ[v] # <<>>
  PROVE  /\ Asking(v) \in Sessions /\ LoginUser(v) \in Users \cup {NoUser}
         /\ Head(logicQ[v]) = <<Asking(v), LoginUser(v)>>
         /\ [logicQ EXCEPT ![v] = Tail(@)] \in [Servers -> Seq(Requests)]
  BY QueuePop DEF Typed, TypeOK, Requests, Asking, LoginUser

LEMMA OtherTyped ==
  ASSUME Typed, NEW v \in Servers, HandleOther(v) \/ HandleUnknown(v)
  PROVE  TypeOK'
<1>1. Asking(v) \in Sessions /\ logicQ' \in [Servers -> Seq(Requests)]
  BY HeadTyped DEF HandleOther, HandleUnknown, LoginAt, Answer
<1>2. CASE HandleOther(v)
  <2>1. SendTo(Asking(v))
    BY <1>2 DEF HandleOther, Answer
  <2>2. UNCHANGED <<srv, sock, reading, heard, sent, posting, accepted, expired, deal, crashes,
                    userId, sessions, userMgr, login, kicks, kickFailed, uip, usession, lock, ident,
                    lost>>
    BY <1>2 DEF HandleOther, LoginKeeps, rpc, redis
  <2> QED
    BY <1>1, <2>1, <2>2, SendTyped DEF Typed, TypeOK, Requests
<1>3. CASE HandleUnknown(v)
  BY <1>1, <1>3 DEF HandleUnknown, LoginKeeps, Typed, TypeOK, rpc, redis, Requests
<1> QED
  BY <1>2, <1>3

LEMMA LoginMoves ==
  ASSUME Typed, NEW v \in Servers, NEW pc, LoginGoesTo(v, pc),
         pc \in {"idle", "getIp", "kickHere", "kickThere", "kickWait",
                 "setIp", "setSession", "setMgr", "release", "reply"}
  PROVE  login' \in [Servers -> LoginStates]
<1>1. login \in [Servers -> LoginStates]
  BY DEF Typed, TypeOK, LoginStates
<1>2. [login[v] EXCEPT !.pc = pc] \in LoginStates
  BY <1>1 DEF LoginStates
<1> QED
  BY <1>1, <1>2 DEF LoginGoesTo

LEMMA LoginTyped ==
  ASSUME Typed, NEW v \in Servers, LoginHandler(v)
  PROVE  TypeOK'
<1>1. /\ logicQ[v] # <<>> /\ Asking(v) \in Sessions /\ LoginUser(v) \in Users
      /\ Worker(v) \in Threads
      /\ [logicQ EXCEPT ![v] = Tail(@)] \in [Servers -> Seq(Requests)]
  <2>1. logicQ[v] # <<>> /\ (login[v].pc # "idle" \/ LoginUser(v) # NoUser)
    BY DEF LoginHandler, LoginLock, LoginGetIp, LoginKickHere, LoginKickThere, LoginKicked,
           LoginSetIp, LoginSetSession, LoginSetMgr, LoginRelease, LoginReply, LoginAt
  <2> QED
    BY <2>1, HeadTyped, ThreadNames DEF Typed, Busy
<1>2. CASE LoginLock(v)
  <2>1. login' \in [Servers -> LoginStates]
    BY <1>2, LoginMoves DEF LoginLock
  <2>2. Locks!TypeOK'
    BY <1>1, <1>2, LockTyped DEF LoginLock, NotAcquired, Typed, TypeOK
  <2> QED
    BY <1>2, <2>1, <2>2 DEF LoginLock, LoginKeeps, Typed, TypeOK, rpc, LoginStates
<1>3. CASE LoginGetIp(v)
  <2>1. uip[LoginUser(v)] \in Servers \cup {NoServer}
    BY <1>1 DEF Typed, TypeOK
  <2>2. [pc |-> KickPlace(v, uip[LoginUser(v)]), to |-> uip[LoginUser(v)]] \in LoginStates
    BY <2>1 DEF KickPlace, LoginStates
  <2>3. login' \in [Servers -> LoginStates]
    <3>1. CASE login' = [login EXCEPT ![v] = [pc |-> KickPlace(v, uip[LoginUser(v)]),
                                              to |-> uip[LoginUser(v)]]]
      BY <2>2, <3>1 DEF LoginStates, Typed, TypeOK
    <3>2. CASE LoginGoesTo(v, "setIp")
      BY <3>2, LoginMoves
    <3> QED
      BY <1>3, <3>1, <3>2 DEF LoginGetIp
  <2>4. lost' \subseteq Commands \X Users
    BY <1>1, <1>3, LossTyped DEF LoginGetIp, Commands, Typed, TypeOK
  <2> QED
    BY <1>3, <2>3, <2>4 DEF LoginGetIp, LoginKeeps, Typed, TypeOK, rpc, LoginStates
<1>4. CASE LoginKickHere(v)
  <2>1. login' \in [Servers -> LoginStates]
    BY <1>4, LoginMoves DEF LoginKickHere
  <2>2. Kick(v, LoginUser(v))
    BY <1>4 DEF LoginKickHere
  <2> QED
    BY <1>1, <1>4, <2>1, <2>2, KickTyped DEF LoginKickHere, LoginKeeps, Typed, TypeOK, rpc, redis, LoginStates
<1>5. CASE LoginKickThere(v)
  <2>1. login' \in [Servers -> LoginStates]
    BY <1>5, LoginMoves DEF LoginKickThere
  <2>2. login[v].to \in Servers
    BY <1>5 DEF LoginKickThere, LoginAt, Typed, Busy
  <2>3. kicks' \subseteq [from : Servers, to : Servers, u : Users]
    BY <1>1, <1>5, <2>2 DEF LoginKickThere, Typed, TypeOK
  <2> QED
    BY <1>5, <2>1, <2>3 DEF LoginKickThere, LoginKeeps, Typed, TypeOK, redis, LoginStates
<1>6. CASE LoginKicked(v)
  <2>1. [pc |-> "setIp", to |-> NoServer] \in LoginStates
    BY DEF LoginStates
  <2>2. login' \in [Servers -> LoginStates]
    BY <1>6, <2>1 DEF LoginKicked, LoginStates, Typed, TypeOK
  <2>3. kickFailed' \in BOOLEAN
    BY <1>6 DEF LoginKicked, KickFails, Typed, TypeOK
  <2> QED
    BY <1>6, <2>2, <2>3 DEF LoginKicked, LoginKeeps, Typed, TypeOK, redis, LoginStates
<1>7. CASE LoginSetIp(v)
  <2>1. [pc |-> "setSession", to |-> NoServer] \in LoginStates
    BY DEF LoginStates
  <2>2. login' \in [Servers -> LoginStates]
    BY <1>7, <2>1 DEF LoginSetIp, LoginStates, Typed, TypeOK
  <2>3. /\ userId' \in [Sessions -> Users \cup {NoUser}]
        /\ uip' \in [Users -> Servers \cup {NoServer}]
    BY <1>1, <1>7 DEF LoginSetIp, SetIp, Typed, TypeOK
  <2>4. lost' \subseteq Commands \X Users
    BY <1>1, <1>7, LossTyped DEF LoginSetIp, SetIp, Commands, Typed, TypeOK
  <2> QED
    BY <1>7, <2>2, <2>3, <2>4 DEF LoginSetIp, LoginKeeps, Typed, TypeOK, rpc, LoginStates
<1>8. CASE LoginSetSession(v)
  <2>1. login' \in [Servers -> LoginStates]
    BY <1>8, LoginMoves DEF LoginSetSession
  <2>2. usession' \in [Users -> Sessions \cup {NoSession}]
    BY <1>1, <1>8 DEF LoginSetSession, SetSession, Typed, TypeOK
  <2>3. lost' \subseteq Commands \X Users
    BY <1>1, <1>8, LossTyped DEF LoginSetSession, SetSession, Commands, Typed, TypeOK
  <2> QED
    BY <1>8, <2>1, <2>2, <2>3 DEF LoginSetSession, LoginKeeps, Typed, TypeOK, rpc, LoginStates
<1>9. CASE LoginSetMgr(v)
  <2>1. login' \in [Servers -> LoginStates]
    BY <1>9, LoginMoves DEF LoginSetMgr
  <2>2. userMgr' \in [Servers -> [Users -> Sessions \cup {NoSession}]]
    BY <1>1, <1>9 DEF LoginSetMgr, Typed, TypeOK
  <2> QED
    BY <1>9, <2>1, <2>2 DEF LoginSetMgr, LoginKeeps, Typed, TypeOK, rpc, redis, LoginStates
<1>10. CASE LoginRelease(v)
  <2>1. login' \in [Servers -> LoginStates]
    BY <1>10, LoginMoves DEF LoginRelease
  <2>2. Locks!TypeOK'
    BY <1>1, <1>10, LockTyped DEF LoginRelease, Typed, TypeOK
  <2>3. lost' \subseteq Commands \X Users
    BY <1>1, <1>10, LossTyped DEF LoginRelease, Released, Commands, Typed, TypeOK
  <2> QED
    BY <1>10, <2>1, <2>2, <2>3 DEF LoginRelease, LoginKeeps, Typed, TypeOK, rpc, LoginStates
<1>11. CASE LoginReply(v)
  <2>1. AtRest \in LoginStates
    BY DEF AtRest, LoginStates
  <2>2. login' \in [Servers -> LoginStates]
    BY <1>11, <2>1 DEF LoginReply, LoginStates, Typed, TypeOK
  <2>3. SendTo(Asking(v)) /\ logicQ' \in [Servers -> Seq(Requests)]
    BY <1>1, <1>11 DEF LoginReply, Answer
  <2> QED
    BY <1>1, <1>11, <2>2, <2>3, SendTyped
    DEF LoginReply, LoginKeeps, Typed, TypeOK, rpc, redis, LoginStates, Requests
<1> QED
  BY <1>2, <1>3, <1>4, <1>5, <1>6, <1>7, <1>8, <1>9, <1>10, <1>11 DEF LoginHandler

\* gRPC, Redis, and the process of a server.
LEMMA RpcTyped ==
  ASSUME Typed, NEW k \in kicks, NotifyKickUser(k) \/ KickLost(k)
  PROVE  TypeOK'
<1>1. k.to \in Servers /\ k.u \in Users /\ kicks \ {k} \subseteq [from : Servers, to : Servers, u : Users]
  BY DEF Typed, TypeOK
<1>2. CASE NotifyKickUser(k)
  <2>1. Kick(k.to, k.u)
    BY <1>2 DEF NotifyKickUser
  <2> QED
    BY <1>1, <1>2, <2>1, KickTyped DEF NotifyKickUser, Typed, TypeOK, redis
<1>3. CASE KickLost(k)
  BY <1>1, <1>3 DEF KickLost, KickFails, Typed, TypeOK, connection, server, redis
<1> QED
  BY <1>2, <1>3

LEMMA ExpiryTyped ==
  ASSUME Typed, NEW u \in Users, LockExpires(u)
  PROVE  TypeOK'
<1>1. Locks!TypeOK'
  BY DEF LockExpires, Locks!Expire, Typed, TypeOK
<1> QED
  BY <1>1 DEF LockExpires, Typed, TypeOK, connection, server, rpc

LEMMA CrashTyped ==
  ASSUME Typed, NEW v \in Servers, CrashRestart(v)
  PROVE  TypeOK'
<1>1. /\ sock' \in [Sessions -> {"new", "up", "gone", "closed"}]
      /\ reading' \in [Sessions -> BOOLEAN]
      /\ writing' \in [Sessions -> {"no", "started", "doomed"}]
      /\ queued' \in [Sessions -> Nat]
      /\ \A s \in Sessions : writing'[s] # "no" => queued'[s] > 0
  BY DEF CrashRestart, Typed, TypeOK
<1>2. /\ sessions' \in [Servers -> SUBSET Sessions]
      /\ accepted' \in [Servers -> Sessions \cup {NoSession}]
      /\ expired' \in [Servers -> SUBSET Sessions]
      /\ userMgr' \in [Servers -> [Users -> Sessions \cup {NoSession}]]
  BY DEF CrashRestart, Typed, TypeOK
<1>3. <<>> \in Seq(Requests) /\ NotDealing \in DealStates /\ AtRest \in LoginStates
  BY EmptySeq DEF NotDealing, AtRest, DealStates, DealPlaces, LoginStates
<1>4. /\ logicQ' \in [Servers -> Seq(Requests)] /\ deal' \in [Dealers -> DealStates]
      /\ login' \in [Servers -> LoginStates]
  BY <1>3 DEF CrashRestart, Typed, TypeOK, Requests, DealStates, DealPlaces, LoginStates
<1>5. Locks!TypeOK'
  BY DEF CrashRestart, Typed, TypeOK
<1>6. /\ posting' \subseteq posting /\ kicks' \subseteq kicks
      /\ UNCHANGED <<srv, heard, userId, sent, kickFailed, uip, usession, lost>>
  BY DEF CrashRestart
<1>7. crashes' \in Nat
  BY DEF CrashRestart, Typed, TypeOK
<1> QED
  BY <1>1, <1>2, <1>4, <1>5, <1>6, <1>7
  DEF Typed, TypeOK, Requests, DealStates, DealPlaces, LoginStates

\* All steps but those of the clean-up, the login handler, the kicks, the lock's
\* expiry and a restart.
CalmStep ==
  \/ \E v \in Servers, s \in Sessions : HandleAccept(v, s) \/ TimerClose(v, s) \/ TimerDeal(v, s)
  \/ \E v \in Servers : InsertSession(v) \/ HandleOther(v) \/ HandleUnknown(v)
  \/ \E v \in Servers, E \in SUBSET Sessions : OnTimer(v, E)
  \/ \E s \in Sessions : \/ PeerGone(s) \/ PostWaiting(s) \/ ReadTooLong(s) \/ ReadError(s)
                         \/ WriteDone(s) \/ WriteError(s)
  \/ \E s \in Sessions, u \in Users \cup {NoUser} : ReadRequest(s, u)

LEMMA StepKinds ==
  ASSUME Next
  PROVE  \/ CalmStep
         \/ \E t \in Dealers : Deal(t)
         \/ \E v \in Servers : LoginHandler(v) \/ CrashRestart(v)
         \/ \E k \in kicks : NotifyKickUser(k) \/ KickLost(k)
         \/ \E u \in Users : LockExpires(u)
<1>1. CASE \E v \in Servers, s \in Sessions : HandleAccept(v, s) \/ TimerClose(v, s) \/ TimerDeal(v, s)
  BY <1>1 DEF CalmStep
<1>2. CASE \E v \in Servers : \/ InsertSession(v) \/ HandleOther(v) \/ HandleUnknown(v)
                             \/ LoginHandler(v) \/ CrashRestart(v)
  BY <1>2 DEF CalmStep
<1>3. CASE \/ \E s \in Sessions : \/ PeerGone(s) \/ PostWaiting(s) \/ ReadTooLong(s) \/ ReadError(s)
                                  \/ WriteDone(s) \/ WriteError(s)
           \/ \E s \in Sessions, u \in Users \cup {NoUser} : ReadRequest(s, u)
           \/ \E v \in Servers, E \in SUBSET Sessions : OnTimer(v, E)
  BY <1>3 DEF CalmStep
<1> QED
  BY <1>1, <1>2, <1>3 DEF Next

LEMMA TypeStep ==
  ASSUME Typed, Next
  PROVE  TypeOK'
<1>1. CASE CalmStep
  <2>1. ASSUME NEW v \in Servers, NEW s \in Sessions,
               HandleAccept(v, s) \/ TimerClose(v, s) \/ TimerDeal(v, s)
        PROVE  TypeOK'
    BY <2>1, ConnectionTyped, MainTyped
  <2>2. ASSUME NEW v \in Servers, InsertSession(v) \/ HandleOther(v) \/ HandleUnknown(v)
        PROVE  TypeOK'
    BY <2>2, MainTyped, OtherTyped
  <2>3. ASSUME NEW v \in Servers, NEW E \in SUBSET Sessions, OnTimer(v, E)
        PROVE  TypeOK'
    BY <2>3, MainTyped
  <2>4. ASSUME NEW s \in Sessions,
               \/ PeerGone(s) \/ PostWaiting(s) \/ ReadTooLong(s) \/ ReadError(s)
               \/ WriteDone(s) \/ WriteError(s)
               \/ \E u \in Users \cup {NoUser} : ReadRequest(s, u)
        PROVE  TypeOK'
    BY <2>4, ConnectionTyped, WriteTyped, ReadTyped
  <2> QED
    BY <1>1, <2>1, <2>2, <2>3, <2>4 DEF CalmStep
<1> QED
  BY <1>1, StepKinds, DealTyped, LoginTyped, CrashTyped, RpcTyped, ExpiryTyped

\* Where a clean-up or a login goes.
LEMMA DealGoes ==
  ASSUME TypeOK, NEW t \in Dealers, NEW pc, DealGoesTo(t, pc)
  PROVE  /\ deal'[t].pc = pc /\ deal'[t].s = deal[t].s /\ deal'[t].u = deal[t].u
         /\ \A r \in Dealers : r # t => deal'[r] = deal[r]
<1>1. deal \in [Dealers -> DealStates]
  BY DEF TypeOK, DealStates, DealPlaces
<1> QED
  BY <1>1 DEF DealGoesTo, DealStates

LEMMA LoginGoes ==
  ASSUME TypeOK, NEW v \in Servers, NEW pc, LoginGoesTo(v, pc)
  PROVE  /\ login'[v].pc = pc /\ login'[v].to = login[v].to
         /\ \A w \in Servers : w # v => login'[w] = login[w]
<1>1. login \in [Servers -> LoginStates]
  BY DEF TypeOK, LoginStates
<1> QED
  BY <1>1 DEF LoginGoesTo, LoginStates

\* What a calm step leaves alone: the handler of logins and what it holds, Redis,
\* UserMgr; it may begin a clean-up.
Begins(t) == /\ deal[t] = NotDealing
             /\ \E s \in Sessions : deal'[t] = Dealing(s)

LEMMA BeginsGoes ==
  ASSUME NEW t \in Dealers, Begins(t)
  PROVE  deal'[t].pc = "acquire" \/ (deal'[t].pc = "clear" /\ deal'[t].u = NoUser)
  BY DEF Begins, Dealing

LEMMA CalmKeeps ==
  ASSUME TypeOK, CalmStep
  PROVE  /\ UNCHANGED <<userMgr, login, kicks, kickFailed, uip, usession, lock, ident, lost, crashes>>
         /\ \A v \in Servers : login[v].pc # "idle" => logicQ'[v] = logicQ[v]
         /\ \A t \in Dealers : deal'[t] = deal[t] \/ Begins(t)
         /\ \A s \in Sessions : srv'[s] = srv[s] \/ sock[s] = "new"
<1>0. /\ deal \in [Dealers -> DealStates] /\ logicQ \in [Servers -> Seq(Requests)]
      /\ srv \in [Sessions -> Servers \cup {NoServer}] /\ login \in [Servers -> LoginStates]
  BY DEF TypeOK, DealStates, DealPlaces, Requests, LoginStates
<1> DEFINE Kept ==
      /\ UNCHANGED <<userMgr, login, kicks, kickFailed, uip, usession, lock, ident, lost, crashes>>
      /\ \A v \in Servers : login[v].pc # "idle" => logicQ'[v] = logicQ[v]
      /\ \A t \in Dealers : deal'[t] = deal[t] \/ Begins(t)
      /\ \A s \in Sessions : srv'[s] = srv[s] \/ sock[s] = "new"
<1>1. ASSUME NEW v \in Servers, NEW s \in Sessions, HandleAccept(v, s) PROVE Kept
  BY <1>0, <1>1 DEF HandleAccept, rpc, redis
<1>2. ASSUME NEW v \in Servers, NEW s \in Sessions, TimerDeal(v, s) PROVE Kept
  BY <1>0, <1>2, ThreadNames DEF TimerDeal, Begins, connection, rpc, redis
<1>10. ASSUME NEW v \in Servers, NEW s \in Sessions, TimerClose(v, s) PROVE Kept
  BY <1>10 DEF TimerClose, server, rpc, redis
<1>3. ASSUME NEW v \in Servers, InsertSession(v) PROVE Kept
  BY <1>3 DEF InsertSession, connection, rpc, redis
<1>4. ASSUME NEW v \in Servers, HandleOther(v) \/ HandleUnknown(v) PROVE Kept
  BY <1>0, <1>4 DEF HandleOther, HandleUnknown, LoginAt, Answer, LoginKeeps, rpc, redis
<1>5. ASSUME NEW v \in Servers, NEW E \in SUBSET Sessions, OnTimer(v, E) PROVE Kept
  BY <1>5 DEF OnTimer, connection, rpc, redis
<1>6. ASSUME NEW s \in Sessions, PeerGone(s) \/ ReadTooLong(s) \/ WriteDone(s) PROVE Kept
  BY <1>6 DEF PeerGone, ReadTooLong, WriteDone, server, rpc, redis
<1>7. ASSUME NEW s \in Sessions, PostWaiting(s) PROVE Kept
  BY <1>0, <1>7 DEF PostWaiting, MutexFree, connection, rpc, redis
<1>8. ASSUME NEW s \in Sessions, NEW u \in Users \cup {NoUser}, ReadRequest(s, u) PROVE Kept
  BY <1>0, <1>8 DEF ReadRequest, PostMsgToQue, MutexFree, rpc, redis
<1>9. ASSUME NEW s \in Sessions, ReadError(s) \/ WriteError(s) PROVE Kept
  BY <1>0, <1>9, ThreadNames DEF ReadError, WriteError, CloseAndDeal, IoFree, Begins, rpc, redis
<1>11. ASSUME NEW v \in Servers, NEW s \in Sessions,
              HandleAccept(v, s) \/ TimerClose(v, s) \/ TimerDeal(v, s)
       PROVE  Kept
  BY <1>1, <1>2, <1>10, <1>11
<1>12. ASSUME NEW v \in Servers, InsertSession(v) \/ HandleOther(v) \/ HandleUnknown(v)
       PROVE  Kept
  BY <1>3, <1>4, <1>12
<1>13. ASSUME NEW s \in Sessions, \/ PeerGone(s) \/ PostWaiting(s) \/ ReadTooLong(s) \/ ReadError(s)
                                   \/ WriteDone(s) \/ WriteError(s)
       PROVE  Kept
  BY <1>6, <1>7, <1>9, <1>13
<1> HIDE DEF Kept
<1>14. Kept
  BY <1>5, <1>8, <1>11, <1>12, <1>13 DEF CalmStep
<1> QED
  BY <1>14 DEF Kept

\* A step of one login handler: the others' logins and queues stay, and its own
\* queue loses its head only at the end.
LEMMA LoginSteps ==
  ASSUME Typed, NEW v \in Servers, LoginHandler(v)
  PROVE  /\ \A w \in Servers : w # v => login'[w] = login[w] /\ logicQ'[w] = logicQ[w]
         /\ login'[v].pc # "idle" => logicQ'[v] = logicQ[v]
         /\ logicQ[v] # <<>> /\ Asking(v) \in Sessions /\ LoginUser(v) \in Users
         /\ Items(logicQ'[v]) \subseteq Items(logicQ[v])
         /\ UNCHANGED <<srv, sock, reading, heard, sent, posting, accepted, expired, deal, crashes>>
<1>0. /\ logicQ \in [Servers -> Seq(Requests)] /\ login \in [Servers -> LoginStates]
  BY DEF Typed, TypeOK, Requests, LoginStates
<1>1. \A w \in Servers : w # v => login'[w] = login[w] /\ logicQ'[w] = logicQ[w]
  BY <1>0 DEF LoginHandler, LoginLock, LoginGetIp, LoginKickHere, LoginKickThere, LoginKicked,
         LoginSetIp, LoginSetSession, LoginSetMgr, LoginRelease, LoginReply, LoginGoesTo, Answer
<1>2. logicQ'[v] = logicQ[v] \/ (logicQ'[v] = Tail(logicQ[v]) /\ login'[v].pc = "idle")
  <2>1. CASE LoginReply(v)
    BY <1>0, <2>1 DEF LoginReply, Answer, AtRest
  <2>2. CASE ~LoginReply(v)
    BY <2>2 DEF LoginHandler, LoginLock, LoginGetIp, LoginKickHere, LoginKickThere, LoginKicked,
           LoginSetIp, LoginSetSession, LoginSetMgr, LoginRelease
  <2> QED
    BY <2>1, <2>2
<1>4. logicQ[v] # <<>> /\ (login[v].pc # "idle" \/ LoginUser(v) # NoUser)
  BY DEF LoginHandler, LoginLock, LoginGetIp, LoginKickHere, LoginKickThere, LoginKicked,
         LoginSetIp, LoginSetSession, LoginSetMgr, LoginRelease, LoginReply, LoginAt
<1>5. UNCHANGED <<srv, sock, reading, heard, sent, posting, accepted, expired, deal, crashes>>
  BY DEF LoginHandler, LoginLock, LoginGetIp, LoginKickHere, LoginKickThere, LoginKicked,
         LoginSetIp, LoginSetSession, LoginSetMgr, LoginRelease, LoginReply, LoginKeeps
<1>3. Asking(v) \in Sessions /\ LoginUser(v) \in Users
  BY <1>4, HeadTyped DEF Typed, Busy
<1> QED
  BY <1>0, <1>1, <1>2, <1>3, <1>4, <1>5, QueuePop

LEMMA BusyStep ==
  ASSUME Typed, Next
  PROVE  Busy'
<1>0. /\ logicQ \in [Servers -> Seq(Requests)] /\ login \in [Servers -> LoginStates]
      /\ uip \in [Users -> Servers \cup {NoServer}]
  BY DEF Typed, TypeOK, Requests, LoginStates
<1>1. ASSUME UNCHANGED login,
             \A v \in Servers : login[v].pc # "idle" => logicQ'[v] = logicQ[v]
      PROVE  Busy'
  BY <1>1 DEF Busy, LoginUser, Typed
<1>2. CASE CalmStep
  BY <1>1, <1>2, CalmKeeps DEF Typed
<1>3. ASSUME NEW t \in Dealers, Deal(t) PROVE Busy'
  BY <1>1, <1>3, DealSteps
<1>4. ASSUME NEW v \in Servers, LoginHandler(v) PROVE Busy'
  <2>3. login'[v].pc \in {"kickThere", "kickWait"} => login'[v].to \in Servers
    <3>1. CASE LoginGetIp(v)
      <4>1. LoginUser(v) \in Users
        BY <3>1 DEF LoginGetIp, LoginAt, Typed, Busy
      <4>2. CASE LoginGoesTo(v, "setIp")
        BY <4>2, LoginGoes DEF Typed
      <4>3. CASE login' = [login EXCEPT ![v] = [pc |-> KickPlace(v, uip[LoginUser(v)]),
                                               to |-> uip[LoginUser(v)]]]
        BY <1>0, <4>1, <4>3 DEF KickPlace
      <4> QED
        BY <3>1, <4>2, <4>3 DEF LoginGetIp
    <3>2. CASE LoginKickThere(v)
      BY <3>2, LoginGoes DEF LoginKickThere, LoginAt, Typed, Busy
    <3>3. CASE LoginLock(v) \/ LoginKickHere(v) \/ LoginSetSession(v) \/ LoginSetMgr(v) \/ LoginRelease(v)
      BY <3>3, LoginGoes
      DEF LoginLock, LoginKickHere, LoginSetSession, LoginSetMgr, LoginRelease, Typed
    <3>4. CASE LoginKicked(v) \/ LoginSetIp(v) \/ LoginReply(v)
      BY <1>0, <3>4 DEF LoginKicked, LoginSetIp, LoginReply, AtRest
    <3> QED
      BY <1>4, <3>1, <3>2, <3>3, <3>4 DEF LoginHandler
  <2> QED
    BY <1>4, <2>3, LoginSteps DEF Busy, LoginUser, Typed
<1>5. ASSUME NEW v \in Servers, CrashRestart(v) PROVE Busy'
  BY <1>0, <1>5 DEF CrashRestart, Busy, LoginUser, Typed, AtRest
<1>6. ASSUME NEW k \in kicks, NotifyKickUser(k) \/ KickLost(k) PROVE Busy'
  BY <1>1, <1>6 DEF NotifyKickUser, KickLost, server
<1>7. ASSUME NEW u \in Users, LockExpires(u) PROVE Busy'
  BY <1>1, <1>7 DEF LockExpires, server
<1> QED
  BY <1>2, <1>3, <1>4, <1>5, <1>6, <1>7, StepKinds

LEMMA DealtStep ==
  ASSUME Typed, Next
  PROVE  Dealt'
<1>0. deal \in [Dealers -> DealStates]
  BY DEF Typed, TypeOK, DealStates, DealPlaces
<1>1. CASE CalmStep
  <2>0. userId \in [Sessions -> Users \cup {NoUser}]
    BY DEF Typed, TypeOK
  <2>1. ASSUME NEW t \in Dealers
        PROVE  /\ deal'[t].pc = "no" => deal'[t] = NotDealing
               /\ deal'[t].pc # "no" => deal'[t].s \in Sessions
               /\ deal'[t].pc \notin {"no", "clear"} => deal'[t].u \in Users
    <3>1. CASE deal'[t] = deal[t]
      BY <3>1 DEF Typed, Dealt
    <3>2. CASE Begins(t)
      BY <2>0, <3>2 DEF Begins, Dealing
    <3> QED
      BY <1>1, <3>1, <3>2, CalmKeeps DEF Typed
  <2> QED
    BY <2>1 DEF Dealt
<1>2. ASSUME NEW t \in Dealers, Deal(t) PROVE Dealt'
  <2>1. CASE DealRelease(t)
    BY <1>0, <2>1 DEF DealRelease, NotDealing, Typed, Dealt
  <2>2. ASSUME NEW pc \in DealPlaces \ {"no"}, DealGoesTo(t, pc), deal[t].pc # "no",
               pc # "clear" => deal[t].u \in Users
        PROVE  Dealt'
    BY <2>2, DealGoes DEF Typed, Dealt
  <2>3. CASE DealLock(t)
    BY <2>2, <2>3 DEF DealLock, DealPlaces, Typed, Dealt
  <2>4. CASE DealCheck(t)
    BY <2>2, <2>4 DEF DealCheck, DealPlaces, Typed, Dealt
  <2>5. CASE DealDelSession(t) \/ DealDelIp(t)
    BY <2>2, <2>5 DEF DealDelSession, DealDelIp, DealPlaces, Typed, Dealt
  <2>6. CASE DealClear(t) /\ deal[t].u # NoUser
    BY <1>0, <2>2, <2>6 DEF DealClear, DealPlaces, DealStates
  <2>7. CASE DealClear(t) /\ deal[t].u = NoUser
    BY <1>0, <2>7 DEF DealClear, NotDealing, Typed, Dealt
  <2> QED
    BY <1>2, <2>1, <2>3, <2>4, <2>5, <2>6, <2>7 DEF Deal
<1>3. ASSUME NEW v \in Servers, LoginHandler(v) PROVE Dealt'
  BY <1>3, LoginSteps DEF Typed, Dealt
<1>4. ASSUME NEW v \in Servers, CrashRestart(v) PROVE Dealt'
  BY <1>4 DEF CrashRestart, NotDealing, Typed, Dealt
<1>5. ASSUME NEW k \in kicks, NotifyKickUser(k) \/ KickLost(k) PROVE Dealt'
  BY <1>5 DEF NotifyKickUser, KickLost, server, Typed, Dealt
<1>6. ASSUME NEW u \in Users, LockExpires(u) PROVE Dealt'
  BY <1>6 DEF LockExpires, server, Typed, Dealt
<1> QED
  BY <1>1, <1>2, <1>3, <1>4, <1>5, <1>6, StepKinds

LEMMA TypedStep == Typed /\ [Next]_vars => Typed'
<1>1. ASSUME Typed, Next PROVE Typed'
  BY <1>1, TypeStep, BusyStep, DealtStep DEF Typed
<1>2. ASSUME Typed, UNCHANGED vars PROVE Typed'
  BY <1>2 DEF Typed, TypeOK, Busy, Dealt, LoginUser, vars, connection, server, redis, rpc
<1> QED
  BY <1>1, <1>2

\* Every variable holds what its declaration promises, for any number of servers,
\* users and connections: no handler reads the head of an empty queue, and no
\* write is under way on a connection whose queue of messages is empty.
THEOREM TypeCorrect == Spec => []TypeOK
<1>1. Typed => TypeOK
  BY DEF Typed
<1> QED
  BY <1>1, InitTyped, TypedStep, PTL DEF Spec

-----------------------------------------------------------------------------
(* Where a connection can be met: only on the server that accepted it, and *)
(* not before HandleAccept has put it into _sessions                       *)

Placed == \A s \in Sessions : srv[s] = NoServer <=> sock[s] = "new"

InTables == \A v \in Servers :
  /\ \A s \in sessions[v] : srv[s] = v
  /\ \A s \in expired[v] : srv[s] = v
  /\ accepted[v] # NoSession => srv[accepted[v]] = v /\ accepted[v] \notin sessions[v]

InQueues ==
  /\ \A v \in Servers : \A m \in Items(logicQ[v]) : srv[m[1]] = v /\ m[1] # accepted[v]
  /\ \A m \in posting : srv[m[1]] \in Servers /\ m[1] # accepted[srv[m[1]]]

InMaps ==
  /\ \A v \in Servers, u \in Users :
       userMgr[v][u] # NoSession => srv[userMgr[v][u]] = v /\ userMgr[v][u] # accepted[v]
  /\ \A u \in Users : usession[u] # NoSession => srv[usession[u]] \in Servers

InCleanUp ==
  /\ \A t \in Dealers : deal[t].pc # "no" => sock[deal[t].s] = "closed"
  /\ \A s \in Sessions : deal[Io(s)].pc # "no" => deal[Io(s)].s = s /\ srv[s] \in Servers
  /\ \A v \in Servers : deal[Main(v)].pc # "no" => srv[deal[Main(v)].s] = v

Here == Placed /\ InTables /\ InQueues /\ InMaps /\ InCleanUp

LEMMA InitHere == Init => Here
  BY ThreadNames DEF Init, Here, Placed, InTables, InQueues, InMaps, InCleanUp, Items, NotDealing

\* Steps that accept nothing, and what else they must not do for a part to stay.
NoneAccepted ==
  /\ srv' = srv
  /\ \A v \in Servers : accepted'[v] = accepted[v] \/ accepted'[v] = NoSession
  /\ \A s \in Sessions : /\ sock'[s] = "new" <=> sock[s] = "new"
                         /\ sock[s] = "closed" => sock'[s] = "closed"

LEMMA PlacedKept == Placed /\ NoneAccepted => Placed'
  BY DEF Placed, NoneAccepted

LEMMA TablesKept ==
  ASSUME Typed, InTables, NoneAccepted,
         \A v \in Servers : sessions'[v] \subseteq sessions[v] /\ expired'[v] \subseteq expired[v]
  PROVE  InTables'
<1>1. \A v \in Servers : expired[v] \subseteq Sessions
  BY DEF Typed, TypeOK
<1> QED
  BY <1>1 DEF InTables, NoneAccepted

LEMMA QueuesKept ==
  ASSUME Typed, InQueues, NoneAccepted, posting' \subseteq posting,
         \A v \in Servers : Items(logicQ'[v]) \subseteq Items(logicQ[v])
  PROVE  InQueues'
<1>2. ASSUME NEW v \in Servers, NEW m \in Items(logicQ[v]) PROVE m[1] \in Sessions
  BY <1>2, LenProperties, ElementOfSeq DEF Items, Typed, TypeOK, Requests
<1>3. \A m \in posting : m[1] \in Sessions
  BY DEF Typed, TypeOK
<1> QED
  BY <1>2, <1>3, NullAssumption DEF InQueues, NoneAccepted

LEMMA MapsKept ==
  ASSUME Typed, InMaps, NoneAccepted,
         \A v \in Servers, u \in Users : userMgr'[v][u] \in {userMgr[v][u], NoSession},
         \A u \in Users : usession'[u] \in {usession[u], NoSession}
  PROVE  InMaps'
  BY DEF InMaps, NoneAccepted

LEMMA CleanUpKept ==
  ASSUME Typed, InCleanUp, NoneAccepted,
         \A t \in Dealers : deal'[t].pc # "no" => deal[t].pc # "no" /\ deal'[t].s = deal[t].s
  PROVE  InCleanUp'
  BY ThreadNames DEF InCleanUp, NoneAccepted, Typed, Dealt

\* A new connection: nothing else knows of it.
LEMMA AcceptHere ==
  ASSUME Typed, Here, NEW v \in Servers, NEW s \in Sessions, HandleAccept(v, s)
  PROVE  Here'
<1>1. /\ srv' = [srv EXCEPT ![s] = v] /\ srv \in [Sessions -> Servers \cup {NoServer}]
      /\ sock' = [sock EXCEPT ![s] = "up"] /\ sock[s] = "new"
      /\ sock \in [Sessions -> {"new", "up", "gone", "closed"}]
      /\ accepted' = [accepted EXCEPT ![v] = s] /\ accepted \in [Servers -> Sessions \cup {NoSession}]
      /\ UNCHANGED <<sessions, expired, userMgr, logicQ, posting, deal, usession>>
      /\ srv[s] = NoServer /\ NoServer \notin Servers /\ NoSession \notin Sessions
  BY NullAssumption DEF HandleAccept, Typed, TypeOK, Here, Placed, redis
<1>2. Placed'
  BY <1>1 DEF Here, Placed
<1>3. InTables'
  <2>1. \A w \in Servers : sessions[w] \subseteq Sessions /\ expired[w] \subseteq Sessions
    BY DEF Typed, TypeOK
  <2> QED
    BY <1>1, <2>1 DEF Here, InTables
<1>4. InQueues'
  <2>1. ASSUME NEW w \in Servers, NEW m \in Items(logicQ[w]) PROVE m[1] \in Sessions
    BY <2>1, LenProperties, ElementOfSeq DEF Items, Typed, TypeOK, Requests
  <2>2. \A m \in posting : m[1] \in Sessions
    BY DEF Typed, TypeOK
  <2> QED
    BY <1>1, <2>1, <2>2 DEF Here, InQueues
<1>5. InMaps'
  <2>1. /\ \A w \in Servers, u \in Users : userMgr[w][u] \in Sessions \cup {NoSession}
        /\ \A u \in Users : usession[u] \in Sessions \cup {NoSession}
    BY DEF Typed, TypeOK
  <2> QED
    BY <1>1, <2>1 DEF Here, InMaps
<1>6. InCleanUp'
  BY <1>1, ThreadNames DEF Here, InCleanUp, Typed, Dealt
<1> QED
  BY <1>2, <1>3, <1>4, <1>5, <1>6 DEF Here

\* A request is posted: its connection is in _sessions, or waits for the mutex.
LEMMA PostHere ==
  ASSUME Typed, Here, NEW s \in Sessions, 
         (\E u \in Users \cup {NoUser} : ReadRequest(s, u)) \/ PostWaiting(s)
  PROVE  Here'
<1>1. /\ NoneAccepted
      /\ UNCHANGED <<sessions, expired, accepted, userMgr, usession, deal>>
  BY DEF ReadRequest, PostWaiting, NoneAccepted, connection, redis, Typed, TypeOK
<1>2. /\ srv \in [Sessions -> Servers \cup {NoServer}] /\ logicQ \in [Servers -> Seq(Requests)]
      /\ posting \subseteq Requests
  BY DEF Typed, TypeOK, Requests
<1>3. InQueues'
  <2>1. ASSUME NEW m \in Requests, NEW v \in Servers, srv[m[1]] = v, m[1] # accepted[v],
               logicQ' = [logicQ EXCEPT ![v] = Append(@, m)], posting' \subseteq posting
        PROVE  InQueues'
    <3>1. \A w \in Servers : Items(logicQ'[w]) \subseteq Items(logicQ[w]) \cup (IF w = v THEN {m} ELSE {})
      BY <1>2, <2>1, QueueAppend
    <3> QED
      BY <1>1, <2>1, <3>1 DEF Here, InQueues, NoneAccepted
  <2>2. ASSUME NEW u \in Users \cup {NoUser}, ReadRequest(s, u) PROVE InQueues'
    <3>1. srv[s] \in Servers
      BY <1>2, <2>2 DEF ReadRequest, Here, Placed
    <3>2. CASE ~CheckValid(s)
      BY <1>1, <2>2, <3>2, QueuesKept DEF ReadRequest, Here
    <3>3. CASE CheckValid(s)
      <4>1. s # accepted[srv[s]] /\ <<s, u>> \in Requests
        BY <3>1, <3>3, NullAssumption DEF CheckValid, Here, InTables, Requests
      <4>2. CASE MutexFree(srv[s])
        BY <2>1, <2>2, <3>1, <3>3, <4>1, <4>2 DEF ReadRequest, PostMsgToQue
      <4>3. CASE ~MutexFree(srv[s])
        <5>1. logicQ' = logicQ /\ posting' = posting \cup {<<s, u>>}
          BY <2>2, <3>3, <4>3 DEF ReadRequest, PostMsgToQue
        <5> QED
          BY <1>1, <3>1, <4>1, <5>1 DEF Here, InQueues, NoneAccepted
      <4> QED
        BY <4>2, <4>3
    <3> QED
      BY <3>2, <3>3
  <2>3. CASE PostWaiting(s)
    <3>1. PICK m \in posting : /\ m[1] = s /\ logicQ' = [logicQ EXCEPT ![srv[s]] = Append(@, m)]
                               /\ posting' = posting \ {m}
      BY <2>3 DEF PostWaiting
    <3> QED
      BY <1>2, <2>1, <3>1 DEF Here, InQueues
  <2> QED
    BY <2>2, <2>3
<1> QED
  BY <1>1, <1>3, PlacedKept, TablesKept, MapsKept, CleanUpKept DEF Here

\* A clean-up begins, for a connection that is closed.
LEMMA BeginsHere ==
  ASSUME Typed, Here, NEW s \in Sessions, 
         ReadError(s) \/ WriteError(s) \/ \E v \in Servers : TimerDeal(v, s)
  PROVE  Here'
<1>1. /\ UNCHANGED <<srv, sessions, accepted, userMgr, logicQ, posting, usession>>
      /\ \A r \in Sessions : sock'[r] = sock[r]
                              \/ (r = s /\ sock[s] \in {"gone", "closed"} /\ sock'[s] = "closed")
      /\ \A v \in Servers : expired'[v] \subseteq expired[v]
  <2>1. CASE ReadError(s) \/ WriteError(s)
    BY <2>1 DEF ReadError, WriteError, CloseAndDeal, redis, Typed, TypeOK
  <2>2. ASSUME NEW v \in Servers, TimerDeal(v, s)
        PROVE  /\ UNCHANGED <<srv, sock, sessions, accepted, userMgr, logicQ, posting, usession>>
               /\ \A w \in Servers : expired'[w] \subseteq expired[w]
    BY <2>2 DEF TimerDeal, connection, redis, Typed, TypeOK
  <2> QED
    BY <2>1, <2>2
<1>2. NoneAccepted
  BY <1>1 DEF NoneAccepted
<1>3. InCleanUp'
  <2>1. deal \in [Dealers -> DealStates] /\ srv \in [Sessions -> Servers \cup {NoServer}]
    BY DEF Typed, TypeOK, DealStates, DealPlaces
  <2>2. CASE ReadError(s) \/ WriteError(s)
    <3>1. /\ deal' = [deal EXCEPT ![Io(s)] = Dealing(s)]
          /\ sock'[s] = "closed" /\ srv[s] \in Servers
      BY <2>1, <2>2 DEF ReadError, WriteError, CloseAndDeal, Here, Placed, Typed, TypeOK
    <3> QED
      BY <1>2, <2>1, <3>1, ThreadNames DEF Here, InCleanUp, NoneAccepted, Typed, Dealt, Dealing
  <2>3. ASSUME NEW v \in Servers, TimerDeal(v, s) PROVE InCleanUp'
    <3>1. /\ deal' = [deal EXCEPT ![Main(v)] = Dealing(s)]
          /\ sock[s] = "closed" /\ srv[s] = v
      BY <2>3 DEF TimerDeal, Here, InTables
    <3> QED
      BY <1>2, <2>1, <3>1, ThreadNames DEF Here, InCleanUp, NoneAccepted, Typed, Dealt, Dealing
  <2> QED
    BY <2>2, <2>3
<1> QED
  BY <1>1, <1>2, <1>3, PlacedKept, TablesKept, QueuesKept, MapsKept DEF Here

LEMMA MainHere ==
  ASSUME Typed, Here, NEW v \in Servers,
         \/ InsertSession(v)
         \/ \E E \in SUBSET Sessions : OnTimer(v, E)
         \/ \E s \in Sessions : TimerClose(v, s)
  PROVE  Here'
<1>1. UNCHANGED <<srv, userMgr, logicQ, posting, deal, usession>>
  BY DEF InsertSession, OnTimer, TimerClose, connection, server, redis
<1>2. CASE InsertSession(v)
  <2>1. NoneAccepted
    BY <1>2 DEF InsertSession, NoneAccepted, connection, Typed, TypeOK
  <2>2. InTables'
    BY <1>2, <2>1 DEF InsertSession, connection, Here, InTables, Typed, TypeOK
  <2> QED
    BY <1>1, <2>1, <2>2, PlacedKept, QueuesKept, MapsKept, CleanUpKept DEF Here
<1>3. ASSUME NEW E \in SUBSET Sessions, OnTimer(v, E) PROVE Here'
  <2>1. /\ E \subseteq sessions[v] /\ expired' = [expired EXCEPT ![v] = E]
        /\ UNCHANGED <<sock, accepted, sessions>>
    BY <1>3 DEF OnTimer, connection
  <2>2. NoneAccepted
    BY <1>1, <2>1 DEF NoneAccepted
  <2>3. InTables'
    BY <1>1, <2>1, <2>2 DEF Here, InTables, NoneAccepted, Typed, TypeOK
  <2> QED
    BY <1>1, <2>1, <2>2, <2>3, PlacedKept, QueuesKept, MapsKept, CleanUpKept DEF Here
<1>4. ASSUME NEW s \in Sessions, TimerClose(v, s) PROVE Here'
  <2>1. /\ s \in expired[v] /\ sock' = [sock EXCEPT ![s] = "closed"]
        /\ UNCHANGED <<accepted, sessions, expired>>
    BY <1>4 DEF TimerClose, server
  <2>2. sock[s] # "new"
    BY <2>1, NullAssumption DEF Here, InTables, Placed
  <2>3. NoneAccepted
    BY <1>1, <2>1, <2>2 DEF NoneAccepted, Typed, TypeOK
  <2> QED
    BY <1>1, <2>1, <2>3, PlacedKept, TablesKept, QueuesKept, MapsKept, CleanUpKept DEF Here
<1> QED
  BY <1>2, <1>3, <1>4

\* Steps that add to nothing.
LEMMA LeaveHere ==
  ASSUME Typed, Here, NoneAccepted, posting' \subseteq posting,
         \A v \in Servers : /\ sessions'[v] \subseteq sessions[v] /\ expired'[v] \subseteq expired[v]
                            /\ Items(logicQ'[v]) \subseteq Items(logicQ[v])
                            /\ \A u \in Users : userMgr'[v][u] \in {userMgr[v][u], NoSession},
         \A u \in Users : usession'[u] \in {usession[u], NoSession},
         \A t \in Dealers : deal'[t].pc # "no" => deal[t].pc # "no" /\ deal'[t].s = deal[t].s
  PROVE  Here'
  BY PlacedKept, TablesKept, QueuesKept, MapsKept, CleanUpKept DEF Here

LEMMA OtherHere ==
  ASSUME Typed, Here,
         \/ \E s \in Sessions : PeerGone(s) \/ ReadTooLong(s) \/ WriteDone(s)
         \/ \E v \in Servers : HandleOther(v) \/ HandleUnknown(v)
  PROVE  Here'
<1>1. ASSUME NEW s \in Sessions, PeerGone(s) \/ ReadTooLong(s) \/ WriteDone(s)
      PROVE  Here'
  <2>1. /\ UNCHANGED <<srv, accepted, expired, userMgr, logicQ, posting, deal, usession>>
        /\ \A v \in Servers : sessions'[v] \subseteq sessions[v]
        /\ \A r \in Sessions : sock'[r] = sock[r] \/ (sock[r] = "up" /\ sock'[r] = "gone")
    BY <1>1 DEF PeerGone, ReadTooLong, WriteDone, ClearSession, server, redis, Typed, TypeOK
  <2>2. NoneAccepted
    BY <2>1 DEF NoneAccepted
  <2> QED
    BY <2>1, <2>2, LeaveHere
<1>2. ASSUME NEW v \in Servers, HandleOther(v) \/ HandleUnknown(v)
      PROVE  Here'
  <2>1. /\ UNCHANGED <<srv, sock, accepted, sessions, expired, userMgr, posting, deal, usession>>
        /\ logicQ' = [logicQ EXCEPT ![v] = Tail(@)] /\ logicQ[v] # <<>>
    BY <1>2 DEF HandleOther, HandleUnknown, Answer, LoginKeeps, LoginAt, redis
  <2>2. \A w \in Servers : Items(logicQ'[w]) \subseteq Items(logicQ[w])
    <3>1. logicQ \in [Servers -> Seq(Requests)]
      BY DEF Typed, TypeOK, Requests
    <3> QED
      BY <2>1, <3>1, QueuePop
  <2>3. NoneAccepted
    BY <2>1 DEF NoneAccepted
  <2> QED
    BY <2>1, <2>2, <2>3, LeaveHere
<1> QED
  BY <1>1, <1>2

LEMMA DealHere ==
  ASSUME Typed, Here, NEW t \in Dealers, Deal(t)
  PROVE  Here'
<1>1. UNCHANGED <<srv, sock, accepted, expired, userMgr, logicQ, posting>>
  BY DealSteps DEF connection
<1>2. NoneAccepted
  BY <1>1 DEF NoneAccepted
<1>3. \A v \in Servers : sessions'[v] \subseteq sessions[v]
  <2>1. sessions \in [Servers -> SUBSET Sessions]
    BY DEF Typed, TypeOK
  <2>2. sessions' = sessions \/ ClearSession(srv[deal[t].s], deal[t].s)
    BY DealSteps
  <2> QED
    BY <2>1, <2>2 DEF ClearSession
<1>4. \A u \in Users : usession'[u] \in {usession[u], NoSession}
  <2>1. usession \in [Users -> Sessions \cup {NoSession}]
    BY DEF Typed, TypeOK
  <2>2. usession' = usession \/ usession' = [usession EXCEPT ![deal[t].u] = NoSession]
    BY DealSteps
  <2> QED
    BY <2>1, <2>2
<1>5. \A r \in Dealers : deal'[r].pc # "no" => deal[r].pc # "no" /\ deal'[r].s = deal[r].s
  <2>1. deal[t].pc # "no"
    BY DEF Deal, DealLock, DealCheck, DealDelSession, DealDelIp, DealClear, DealRelease
  <2>2. deal \in [Dealers -> DealStates]
    BY DEF Typed, TypeOK, DealStates, DealPlaces
  <2>3. CASE deal' = [deal EXCEPT ![t] = NotDealing]
    BY <2>2, <2>3 DEF NotDealing
  <2>4. ASSUME NEW pc \in DealPlaces, DealGoesTo(t, pc)
        PROVE  \A r \in Dealers : deal'[r].pc # "no" => deal[r].pc # "no" /\ deal'[r].s = deal[r].s
    BY <2>1, <2>4, DealGoes DEF Typed
  <2> QED
    BY <2>3, <2>4, DealSteps
<1> QED
  BY <1>1, <1>2, <1>3, <1>4, <1>5, LeaveHere

\* Which step of the login handler changes what.
LEMMA LoginChanges ==
  ASSUME NEW v \in Servers, LoginHandler(v)
  PROVE  /\ userMgr' = userMgr \/ LoginSetMgr(v)
         /\ usession' = usession \/ LoginSetSession(v)
         /\ UNCHANGED <<uip, userId>> \/ LoginSetIp(v)
         /\ UNCHANGED <<lock, ident>> \/ LoginLock(v) \/ LoginRelease(v)
         /\ kicks' = kicks \/ LoginKickThere(v)
         /\ kickFailed' = kickFailed \/ LoginKicked(v)
         /\ UNCHANGED <<queued, writing>> \/ LoginKickHere(v) \/ LoginReply(v)
         /\ sessions' = sessions \/ LoginKickHere(v)
<1>1. CASE LoginLock(v) \/ LoginGetIp(v) \/ LoginKickThere(v) \/ LoginKicked(v)
  BY <1>1 DEF LoginLock, LoginGetIp, LoginKickThere, LoginKicked, rpc, redis
<1>2. CASE LoginKickHere(v) \/ LoginSetIp(v) \/ LoginSetSession(v) \/ LoginSetMgr(v)
  BY <1>2 DEF LoginKickHere, LoginSetIp, LoginSetSession, LoginSetMgr, rpc, redis
<1>3. CASE LoginRelease(v) \/ LoginReply(v)
  BY <1>3 DEF LoginRelease, LoginReply, rpc, redis
<1> QED
  BY <1>1, <1>2, <1>3 DEF LoginHandler

LEMMA KickShrinks ==
  ASSUME Typed, NEW v \in Servers, NEW u \in Users, Kick(v, u)
  PROVE  \A w \in Servers : sessions'[w] \subseteq sessions[w]
<1>1. sessions' = sessions \/ sessions' = [sessions EXCEPT ![v] = @ \ {userMgr[v][u]}]
  BY DEF Kick, ClearSession
<1>2. sessions \in [Servers -> SUBSET Sessions]
  BY DEF Typed, TypeOK
<1> QED
  BY <1>1, <1>2

LEMMA LoginHere ==
  ASSUME Typed, Here, NEW v \in Servers, LoginHandler(v)
  PROVE  Here'
<1>1. /\ NoneAccepted /\ UNCHANGED <<srv, accepted, expired, posting, deal>>
      /\ \A w \in Servers : Items(logicQ'[w]) \subseteq Items(logicQ[w])
  BY LoginSteps DEF NoneAccepted
<1>2. \A w \in Servers : sessions'[w] \subseteq sessions[w]
  BY LoginChanges, LoginSteps, KickShrinks DEF LoginKickHere
<1>3. InMaps'
  <2>1. srv[Asking(v)] = v /\ Asking(v) # accepted[v] /\ Asking(v) \in Sessions
    <3>1. logicQ[v] \in Seq(Requests) /\ logicQ[v] # <<>>
      BY LoginSteps DEF Typed, TypeOK, Requests
    <3>2. Head(logicQ[v]) \in Items(logicQ[v]) /\ Asking(v) \in Sessions
      BY <3>1, QueuePop DEF Asking
    <3> QED
      BY <3>2 DEF Here, InQueues, Asking
  <2>2. CASE LoginSetMgr(v)
    <3>1. usession' = usession /\ userMgr' = [userMgr EXCEPT ![v][LoginUser(v)] = Asking(v)]
      BY <2>2 DEF LoginSetMgr, redis
    <3>2. \A w \in Servers, u \in Users : userMgr'[w][u] = userMgr[w][u]
                                             \/ (w = v /\ userMgr'[w][u] = Asking(v))
      BY <3>1 DEF Typed, TypeOK
    <3> QED
      BY <1>1, <2>1, <3>1, <3>2 DEF Here, InMaps
  <2>3. CASE LoginSetSession(v)
    <3>1. /\ userMgr' = userMgr
          /\ usession' = [usession EXCEPT ![LoginUser(v)] = Asking(v)] \/ usession' = usession
      BY <2>3 DEF LoginSetSession, SetSession
    <3>2. \A u \in Users : usession'[u] = usession[u] \/ usession'[u] = Asking(v)
      BY <3>1 DEF Typed, TypeOK
    <3> QED
      BY <1>1, <2>1, <3>1, <3>2 DEF Here, InMaps
  <2>4. CASE UNCHANGED <<userMgr, usession>>
    BY <1>1, <2>4, MapsKept DEF Here
  <2> QED
    BY <2>2, <2>3, <2>4, LoginChanges
<1> QED
  BY <1>1, <1>2, <1>3, PlacedKept, TablesKept, QueuesKept, CleanUpKept DEF Here

LEMMA OutsideHere ==
  ASSUME Typed, Here,
         \/ \E k \in kicks : NotifyKickUser(k) \/ KickLost(k)
         \/ \E u \in Users : LockExpires(u)
  PROVE  Here'
<1>1. UNCHANGED <<srv, sock, accepted, expired, userMgr, logicQ, posting, deal, usession>>
  BY DEF NotifyKickUser, KickLost, LockExpires, connection, server, redis
<1>2. \A v \in Servers : sessions'[v] \subseteq sessions[v]
  <2>1. ASSUME NEW k \in kicks, NotifyKickUser(k) PROVE \A v \in Servers : sessions'[v] \subseteq sessions[v]
    <3>1. k.to \in Servers /\ k.u \in Users
      BY DEF Typed, TypeOK
    <3> QED
      BY <2>1, <3>1, KickShrinks DEF NotifyKickUser
  <2> QED
    BY <2>1 DEF KickLost, LockExpires, server
<1>3. NoneAccepted
  BY <1>1 DEF NoneAccepted
<1> QED
  BY <1>1, <1>2, <1>3, LeaveHere

LEMMA CrashHere ==
  ASSUME Typed, Here, NEW v \in Servers, CrashRestart(v)
  PROVE  Here'
<1>1. /\ srv' = srv /\ usession' = usession /\ posting' \subseteq posting
      /\ accepted' = [accepted EXCEPT ![v] = NoSession]
      /\ sock' = [s \in Sessions |-> IF srv[s] = v THEN "closed" ELSE sock[s]]
  BY DEF CrashRestart
<1>2. NoneAccepted
  BY <1>1, NullAssumption DEF NoneAccepted, Here, Placed, Typed, TypeOK
<1>3. \A w \in Servers : sessions'[w] \subseteq sessions[w] /\ expired'[w] \subseteq expired[w]
  BY DEF CrashRestart, Typed, TypeOK
<1>4. \A w \in Servers : Items(logicQ'[w]) \subseteq Items(logicQ[w])
  BY EmptySeq DEF CrashRestart, Typed, TypeOK, Items
<1>5. \A w \in Servers, u \in Users : userMgr'[w][u] \in {userMgr[w][u], NoSession}
  BY DEF CrashRestart, Typed, TypeOK
<1>6. \A t \in Dealers : deal'[t].pc # "no" => deal[t].pc # "no" /\ deal'[t].s = deal[t].s
  BY DEF CrashRestart, NotDealing, Typed, TypeOK
<1> QED
  BY <1>1, <1>2, <1>3, <1>4, <1>5, <1>6, LeaveHere

LEMMA HereStep ==
  ASSUME Typed, Here, Next
  PROVE  Here'
<1>1. CASE CalmStep
  <2>1. ASSUME NEW v \in Servers, NEW s \in Sessions, HandleAccept(v, s) \/ TimerClose(v, s) \/ TimerDeal(v, s)
        PROVE  Here'
    BY <2>1, AcceptHere, BeginsHere, MainHere
  <2>2. ASSUME NEW v \in Servers,
               InsertSession(v) \/ HandleOther(v) \/ HandleUnknown(v)
               \/ \E E \in SUBSET Sessions : OnTimer(v, E)
        PROVE  Here'
    BY <2>2, MainHere, OtherHere
  <2>3. ASSUME NEW s \in Sessions,
               \/ PeerGone(s) \/ PostWaiting(s) \/ ReadTooLong(s) \/ ReadError(s)
               \/ WriteDone(s) \/ WriteError(s)
               \/ \E u \in Users \cup {NoUser} : ReadRequest(s, u)
        PROVE  Here'
    BY <2>3, PostHere, OtherHere, BeginsHere
  <2> QED
    BY <1>1, <2>1, <2>2, <2>3 DEF CalmStep
<1> QED
  BY <1>1, StepKinds, DealHere, LoginHere, OutsideHere, CrashHere

\* Whatever fails, a connection is met only on the server that accepted it: in its
\* table of sessions, its queue, its UserMgr, its timer's list and its clean-ups; it is
\* there only after HandleAccept is done with it; and what is cleaned up is closed.
THEOREM MetAtHome == Spec => []Here
<1>1. Typed /\ Here /\ UNCHANGED vars => Here'
  BY DEF Here, Placed, InTables, InQueues, InMaps, InCleanUp, vars, connection, server, redis, rpc
<1>2. Typed /\ Here /\ [Next]_vars => Here'
  BY <1>1, HereStep
<1> QED
  BY <1>2, InitTyped, TypedStep, InitHere, PTL DEF Spec

-----------------------------------------------------------------------------
(* The lock of a user, as long as it is neither refused nor lost           *)

InLogin == {"getIp", "kickHere", "kickThere", "kickWait", "setIp", "setSession", "setMgr",
            "release"}
InDeal  == {"check", "delSession", "delIp", "clear", "release"}

\* A handler of a login, and a clean-up for a user, hold the user's lock.
LockHeld ==
  /\ \A v \in Servers : login[v].pc \in InLogin =>
       lock[LoginUser(v)] = Worker(v) /\ ident[Worker(v)] = Worker(v)
  /\ \A t \in Dealers : deal[t].pc \in InDeal /\ deal[t].u # NoUser =>
       lock[deal[t].u] = t /\ ident[t] = t

LEMMA InitLockHeld == Init => LockHeld
  BY DEF Init, LockHeld, InLogin, InDeal, AtRest, NotDealing

LEMMA AcquireEffect ==
  ASSUME Typed, NEW t \in Threads, NEW u \in Users, Acquired(t, u)
  PROVE  /\ lock[u] = NoId
         /\ lock'[u] = t /\ \A x \in Users : x # u => lock'[x] = lock[x]
         /\ ident'[t] = t /\ \A x \in Threads : x # t => ident'[x] = ident[x]
<1>1. PICK i \in Locks!Fresh : lock' = [lock EXCEPT ![u] = i] /\ ident' = [ident EXCEPT ![t] = i]
  BY DEF Acquired, Locks!Acquire
<1>2. lock[u] = NoId /\ ident'[t] = t
  BY DEF Acquired, Locks!Acquire
<1>3. Locks!TypeOK
  BY DEF Typed, TypeOK
<1>4. i = t
  BY <1>1, <1>2, <1>3
<1> QED
  BY <1>1, <1>2, <1>3, <1>4

LEMMA ReleaseEffect ==
  ASSUME Typed, NEW t \in Threads, NEW u \in Users, Released(t, u), lock[u] = t, ident[t] = t
  PROVE  /\ \A x \in Users : x # u => lock'[x] = lock[x]
         /\ \A x \in Threads : x # t => ident'[x] = ident[x]
<1>1. Locks!TypeOK
  BY DEF Typed, TypeOK
<1> QED
  BY <1>1 DEF Released, Locks!Release

\* Nobody loses a lock it holds when somebody else takes or releases one.
LEMMA OthersHold ==
  ASSUME NEW t \in Threads, NEW u \in Users, lock[u] \in {NoId, t},
         \A x \in Users : x # u => lock'[x] = lock[x],
         \A x \in Threads : x # t => ident'[x] = ident[x]
  PROVE  \A h \in Threads, x \in Users : h # t /\ lock[x] = h /\ ident[h] = h =>
           lock'[x] = h /\ ident'[h] = h
  BY NullAssumption

LEMMA LockHeldStep ==
  ASSUME Typed, Typed', LockHeld, ~MayTimeout, Next
  PROVE  LockHeld'
<1>0. /\ deal \in [Dealers -> DealStates] /\ logicQ \in [Servers -> Seq(Requests)]
      /\ login \in [Servers -> LoginStates]
      /\ \A t \in Dealers : deal[t].u \in Users \cup {NoUser}
      /\ \A v \in Servers : login[v].pc \in InLogin => LoginUser(v) \in Users
  BY DEF Typed, TypeOK, DealStates, DealPlaces, Requests, LoginStates, Busy, InLogin
<1>1. CASE CalmStep
  <2>1. /\ UNCHANGED <<lock, ident, login>>
        /\ \A v \in Servers : login[v].pc # "idle" => logicQ'[v] = logicQ[v]
        /\ \A t \in Dealers : \/ deal'[t] = deal[t]
                               \/ deal'[t].pc = "acquire"
                               \/ deal'[t].u = NoUser
    BY <1>1, CalmKeeps, BeginsGoes DEF Typed
  <2> QED
    BY <2>1 DEF LockHeld, LoginUser, InLogin, InDeal
<1>2. ASSUME NEW t \in Dealers, Deal(t) PROVE LockHeld'
  <2>1. UNCHANGED <<login, logicQ>> /\ t \in Threads
    BY <1>2, DealSteps, ThreadNames
  <2>2. ASSUME UNCHANGED <<lock, ident>>, NEW pc, DealGoesTo(t, pc), 
               pc \in InDeal /\ deal[t].u # NoUser => deal[t].pc \in InDeal
        PROVE  LockHeld'
    BY <2>1, <2>2, DealGoes DEF LockHeld, LoginUser, Typed
  <2>3. CASE DealLock(t)
    <3>1. deal[t].u \in Users /\ Acquired(t, deal[t].u) /\ DealGoesTo(t, "check")
      BY <2>3 DEF DealLock, NotAcquired, Typed, Dealt
    <3>2. /\ lock[deal[t].u] = NoId /\ NoId \notin Threads
          /\ lock'[deal[t].u] = t /\ \A x \in Users : x # deal[t].u => lock'[x] = lock[x]
          /\ ident'[t] = t /\ \A x \in Threads : x # t => ident'[x] = ident[x]
      BY <2>1, <3>1, AcquireEffect, NullAssumption
    <3>3. ASSUME NEW v \in Servers, login'[v].pc \in InLogin
          PROVE  lock'[LoginUser(v)'] = Worker(v) /\ ident'[Worker(v)] = Worker(v)
      <4>1. /\ login[v].pc \in InLogin /\ LoginUser(v)' = LoginUser(v)
            /\ Worker(v) # t /\ Worker(v) \in Threads
        BY <2>1, <3>3, ThreadNames DEF LoginUser
      <4> QED
        BY <1>0, <2>1, <3>1, <3>2, <4>1, OthersHold DEF LockHeld
    <3>4. ASSUME NEW r \in Dealers, deal'[r].pc \in InDeal, deal'[r].u # NoUser
          PROVE  lock'[deal'[r].u] = r /\ ident'[r] = r
      <4>1. CASE r = t
        BY <3>1, <3>2, <4>1, DealGoes DEF Typed
      <4>2. CASE r # t
        <5>1. deal'[r] = deal[r] /\ r \in Threads
          BY <3>1, <4>2, DealGoes, ThreadNames DEF Typed
        <5> QED
          BY <1>0, <2>1, <3>1, <3>2, <3>4, <4>2, <5>1, OthersHold DEF LockHeld
      <4> QED
        BY <4>1, <4>2
    <3> QED
      BY <3>3, <3>4 DEF LockHeld
  <2>4. CASE DealCheck(t) \/ DealDelSession(t) \/ DealDelIp(t) \/ DealClear(t)
    <3>1. CASE deal' = [deal EXCEPT ![t] = NotDealing] /\ UNCHANGED <<lock, ident>>
      <4>1. deal'[t].pc = "no" /\ \A r \in Dealers : r # t => deal'[r] = deal[r]
        BY <1>0, <3>1 DEF NotDealing
      <4> QED
        BY <2>1, <3>1, <4>1 DEF LockHeld, LoginUser, InDeal
    <3>2. CASE ~DealClear(t) \/ deal[t].u # NoUser
      BY <2>2, <2>4, <3>2 DEF DealCheck, DealDelSession, DealDelIp, DealClear, InDeal, redis
    <3> QED
      BY <2>4, <3>1, <3>2 DEF DealClear, redis
  <2>5. CASE DealRelease(t)
    <3>1. deal' = [deal EXCEPT ![t] = NotDealing] /\ deal[t].pc = "release"
      BY <2>5 DEF DealRelease
    <3>2. deal'[t].pc \notin InDeal /\ \A r \in Dealers : r # t => deal'[r] = deal[r]
      BY <1>0, <3>1 DEF NotDealing, InDeal
    <3>3. /\ lock[deal[t].u] = t /\ ident[t] = t /\ deal[t].u \in Users
          /\ Released(t, deal[t].u)
      BY <1>0, <2>5, <3>1, NullAssumption DEF LockHeld, InDeal, DealRelease, Typed, Dealt
    <3>4. /\ \A x \in Users : x # deal[t].u => lock'[x] = lock[x]
          /\ \A x \in Threads : x # t => ident'[x] = ident[x]
      BY <2>1, <3>3, ReleaseEffect
    <3>5. ASSUME NEW v \in Servers, login'[v].pc \in InLogin
          PROVE  lock'[LoginUser(v)'] = Worker(v) /\ ident'[Worker(v)] = Worker(v)
      <4>1. /\ login[v].pc \in InLogin /\ LoginUser(v)' = LoginUser(v)
            /\ Worker(v) # t /\ Worker(v) \in Threads
        BY <2>1, <3>5, ThreadNames DEF LoginUser
      <4> QED
        BY <1>0, <2>1, <3>3, <3>4, <4>1, OthersHold DEF LockHeld
    <3>6. ASSUME NEW r \in Dealers, deal'[r].pc \in InDeal, deal'[r].u # NoUser
          PROVE  lock'[deal'[r].u] = r /\ ident'[r] = r
      <4>1. r # t /\ deal'[r] = deal[r] /\ r \in Threads
        BY <3>2, <3>6, ThreadNames
      <4>2. lock[deal[r].u] = r /\ ident[r] = r /\ deal[r].u \in Users
        BY <1>0, <3>6, <4>1 DEF LockHeld
      <4>3. lock'[deal[r].u] = r /\ ident'[r] = r
        BY <2>1, <3>3, <3>4, <4>1, <4>2, OthersHold
      <4> QED
        BY <4>1, <4>3
    <3> QED
      BY <3>5, <3>6 DEF LockHeld
  <2> QED
    BY <1>2, <2>3, <2>4, <2>5 DEF Deal
<1>3. ASSUME NEW v \in Servers, LoginHandler(v) PROVE LockHeld'
  <2>1. /\ \A w \in Servers : w # v => login'[w] = login[w] /\ logicQ'[w] = logicQ[w]
        /\ login'[v].pc # "idle" => logicQ'[v] = logicQ[v]
        /\ LoginUser(v) \in Users /\ Worker(v) \in Threads /\ deal' = deal
    BY <1>3, LoginSteps, ThreadNames
  <2>2. CASE LoginLock(v)
    <3>1. Acquired(Worker(v), LoginUser(v)) /\ login'[v].pc = "getIp"
      BY <2>2, LoginGoes DEF LoginLock, NotAcquired, Typed
    <3>2. /\ lock[LoginUser(v)] = NoId /\ NoId \notin Threads
          /\ lock'[LoginUser(v)] = Worker(v)
          /\ \A x \in Users : x # LoginUser(v) => lock'[x] = lock[x]
          /\ ident'[Worker(v)] = Worker(v)
          /\ \A x \in Threads : x # Worker(v) => ident'[x] = ident[x]
      BY <2>1, <3>1, AcquireEffect, NullAssumption
    <3>3. ASSUME NEW w \in Servers, login'[w].pc \in InLogin
          PROVE  lock'[LoginUser(w)'] = Worker(w) /\ ident'[Worker(w)] = Worker(w)
      <4>1. CASE w = v
        BY <2>1, <3>1, <3>2, <4>1 DEF LoginUser
      <4>2. CASE w # v
        <5>1. /\ login[w].pc \in InLogin /\ LoginUser(w)' = LoginUser(w)
              /\ Worker(w) # Worker(v) /\ Worker(w) \in Threads
          BY <2>1, <3>3, <4>2, ThreadNames DEF LoginUser
        <5> QED
          BY <1>0, <2>1, <3>2, <5>1, OthersHold DEF LockHeld
      <4> QED
        BY <4>1, <4>2
    <3>4. ASSUME NEW r \in Dealers, deal'[r].pc \in InDeal, deal'[r].u # NoUser
          PROVE  lock'[deal'[r].u] = r /\ ident'[r] = r
      <4>1. r # Worker(v) /\ r \in Threads /\ deal'[r] = deal[r]
        BY <2>1, ThreadNames
      <4> QED
        BY <1>0, <2>1, <3>2, <3>4, <4>1, OthersHold DEF LockHeld
    <3> QED
      BY <3>3, <3>4 DEF LockHeld
  <2>3. CASE LoginRelease(v)
    <3>1. /\ login[v].pc = "release" /\ Released(Worker(v), LoginUser(v)) /\ login'[v].pc = "reply"
          /\ lock[LoginUser(v)] = Worker(v) /\ ident[Worker(v)] = Worker(v)
      BY <2>3, LoginGoes DEF LoginRelease, LoginAt, Typed, LockHeld, InLogin
    <3>2. /\ \A x \in Users : x # LoginUser(v) => lock'[x] = lock[x]
          /\ \A x \in Threads : x # Worker(v) => ident'[x] = ident[x]
      BY <2>1, <3>1, ReleaseEffect
    <3>3. ASSUME NEW w \in Servers, login'[w].pc \in InLogin
          PROVE  lock'[LoginUser(w)'] = Worker(w) /\ ident'[Worker(w)] = Worker(w)
      <4>1. w # v
        BY <3>1, <3>3 DEF InLogin
      <4> QED
        <5>1. /\ login[w].pc \in InLogin /\ LoginUser(w)' = LoginUser(w)
              /\ Worker(w) # Worker(v) /\ Worker(w) \in Threads
          BY <2>1, <3>3, <4>1, ThreadNames DEF LoginUser
        <5> QED
          BY <1>0, <2>1, <3>1, <3>2, <5>1, OthersHold DEF LockHeld
    <3>4. ASSUME NEW r \in Dealers, deal'[r].pc \in InDeal, deal'[r].u # NoUser
          PROVE  lock'[deal'[r].u] = r /\ ident'[r] = r
      <4>1. r # Worker(v) /\ r \in Threads /\ deal'[r] = deal[r]
        BY <2>1, ThreadNames
      <4> QED
        BY <1>0, <2>1, <3>1, <3>2, <3>4, <4>1, OthersHold DEF LockHeld
    <3> QED
      BY <3>3, <3>4 DEF LockHeld
  <2>4. CASE ~LoginLock(v) /\ ~LoginRelease(v)
    <3>1. UNCHANGED <<lock, ident>>
      BY <1>3, <2>4, LoginChanges
    <3>2. login'[v].pc \in InLogin => login[v].pc \in InLogin
      BY <1>3, <2>4 DEF LoginHandler, LoginGetIp, LoginKickHere, LoginKickThere, LoginKicked,
           LoginSetIp, LoginSetSession, LoginSetMgr, LoginReply, LoginAt, InLogin, AtRest,
           Typed, TypeOK
    <3> QED
      BY <2>1, <3>1, <3>2 DEF LockHeld, LoginUser, InLogin
  <2> QED
    BY <2>2, <2>3, <2>4
<1>4. ASSUME NEW v \in Servers, CrashRestart(v) PROVE LockHeld'
  <2>1. /\ \A w \in Servers : /\ login'[w] = login[w] /\ logicQ'[w] = logicQ[w] /\ w # v
                              \/ login'[w].pc = "idle"
        /\ \A t \in Dealers : (deal'[t] = deal[t] /\ t \notin ThreadsOf(v)) \/ deal'[t].pc = "no"
        /\ \A u \in Users : lock[u] \notin ThreadsOf(v) => lock'[u] = lock[u]
        /\ \A t \in Threads : t \notin ThreadsOf(v) => ident'[t] = ident[t]
    BY <1>0, <1>4 DEF CrashRestart, AtRest, NotDealing
  <2>2. \A w \in Servers : w # v => Worker(w) \notin ThreadsOf(v) /\ Worker(w) \in Threads
    BY DEF ThreadsOf, Worker, Main, Io, Threads
  <2> QED
    BY <1>0, <2>1, <2>2, ThreadNames DEF LockHeld, LoginUser, InLogin, InDeal
<1>5. ASSUME NEW k \in kicks, NotifyKickUser(k) \/ KickLost(k) PROVE LockHeld'
  BY <1>5 DEF NotifyKickUser, KickLost, server, redis, LockHeld, LoginUser
<1>6. ASSUME NEW u \in Users, LockExpires(u) PROVE LockHeld'
  <2>1. /\ UNCHANGED <<login, logicQ, deal, ident>> /\ lock[u] = DeadId
        /\ \A x \in Users : lock'[x] = lock[x] \/ x = u
    BY <1>6 DEF LockExpires, server, Locks!Expire
  <2> QED
    BY <1>0, <2>1, NullAssumption, ThreadNames DEF LockHeld, LoginUser
<1> QED
  BY <1>1, <1>2, <1>3, <1>4, <1>5, <1>6, StepKinds

\* So no two are inside the section of one user.
LEMMA OneInSection ==
  ASSUME Typed, LockHeld
  PROVE  /\ \A v, w \in Servers :
              login[v].pc \in InLogin /\ login[w].pc \in InLogin /\ LoginUser(v) = LoginUser(w) => v = w
         /\ \A v \in Servers, t \in Dealers :
              login[v].pc \in InLogin /\ deal[t].pc \in InDeal => deal[t].u # LoginUser(v)
         /\ \A r, t \in Dealers :
              deal[r].pc \in InDeal /\ deal[t].pc \in InDeal /\ deal[r].u = deal[t].u
              /\ deal[t].u # NoUser => r = t
<1>1. \A v \in Servers : login[v].pc \in InLogin => LoginUser(v) # NoUser
  BY NullAssumption DEF Typed, Busy, InLogin
<1>2. ASSUME NEW v \in Servers, NEW w \in Servers, login[v].pc \in InLogin, login[w].pc \in InLogin,
             LoginUser(v) = LoginUser(w)
      PROVE  v = w
  <2>1. Worker(v) = Worker(w)
    BY <1>2 DEF LockHeld
  <2> QED
    BY <2>1, ThreadNames
<1>3. ASSUME NEW v \in Servers, NEW t \in Dealers, login[v].pc \in InLogin, deal[t].pc \in InDeal
      PROVE  deal[t].u # LoginUser(v)
  <2>1. deal[t].u = LoginUser(v) => Worker(v) = t
    BY <1>1, <1>3 DEF LockHeld
  <2> QED
    BY <2>1, ThreadNames
<1>4. ASSUME NEW r \in Dealers, NEW t \in Dealers, deal[r].pc \in InDeal, deal[t].pc \in InDeal,
             deal[r].u = deal[t].u, deal[t].u # NoUser
      PROVE  r = t
  <2>1. lock[deal[r].u] = r /\ lock[deal[t].u] = t
    BY <1>4 DEF LockHeld
  <2> QED
    BY <1>4, <2>1
<1> QED
  BY <1>2, <1>3, <1>4

-----------------------------------------------------------------------------
(* What the holder of the lock knows                                       *)

Valid(v, u)  == userMgr[v][u] # NoSession /\ userMgr[v][u] \in sessions[v]
NoneValid(u) == \A v \in Servers : ~Valid(v, u)
KickOf(v)    == [from |-> v, to |-> login[v].to, u |-> LoginUser(v)]

\* The handler of a login knows where Redis has the user, and what it wrote there.
LoginStage == \A v \in Servers :
  /\ login[v].pc = "kickHere" => uip[LoginUser(v)] = v
  /\ login[v].pc \in {"kickThere", "kickWait"} => uip[LoginUser(v)] = login[v].to
  /\ login[v].pc \in {"setSession", "setMgr"} /\ <<"setIp", LoginUser(v)>> \notin lost =>
       uip[LoginUser(v)] = v
  /\ login[v].pc = "setMgr" /\ <<"setSession", LoginUser(v)>> \notin lost =>
       usession[LoginUser(v)] = Asking(v)

\* A clean-up that deletes the keys has found its own connection there.
DealStage == \A t \in Dealers :
  /\ deal[t].pc = "delSession" => usession[deal[t].u] = deal[t].s
  /\ deal[t].pc = "delIp" => usession[deal[t].u] \in {NoSession, deal[t].s}
  /\ deal[t].pc = "delIp" /\ <<"delSession", deal[t].u>> \notin lost =>
       usession[deal[t].u] = NoSession

\* No command of a login was lost for u.
LoggedIn(u) == Answered({"getIp", "setIp", "setSession"}, u)

\* When the kick is done, and until the new login is entered, no connection of the
\* user is valid anywhere.
Kicked(v) == \/ login[v].pc = "kickWait" /\ KickOf(v) \notin kicks
             \/ login[v].pc \in {"setIp", "setSession", "setMgr"}
KickStage == ~kickFailed => \A v \in Servers :
  Kicked(v) /\ LoggedIn(LoginUser(v)) => NoneValid(LoginUser(v))

\* A valid connection is the one Redis names, or about to be cleared.
Clears(t, u, s) == deal[t].pc \in {"delIp", "clear"} /\ deal[t].u = u /\ deal[t].s = s
Current == ~kickFailed => \A u \in Users, v \in Servers : Valid(v, u) /\ LoggedIn(u) =>
  \/ usession[u] = userMgr[v][u] /\ uip[u] = v
  \/ \E t \in Dealers : Clears(t, u, userMgr[v][u])

\* The two keys of a user fit together, but between two writes, if none is lost.
WritesDone(u) == Answered({"setIp", "setSession", "delSession", "delIp"}, u)
Fit(u)  == uip[u] = IF usession[u] = NoSession THEN NoServer ELSE srv[usession[u]]
Paired == crashes = 0 => \A u \in Users : WritesDone(u) =>
  \/ Fit(u)
  \/ \E v \in Servers : login[v].pc = "setSession" /\ LoginUser(v) = u
  \/ \E t \in Dealers : deal[t].pc = "delIp" /\ deal[t].u = u

LEMMA InitPresence == Init => LoginStage /\ DealStage /\ KickStage /\ Current /\ Paired
  BY DEF Init, LoginStage, DealStage, KickStage, Kicked, Current, Valid, Paired, Fit, AtRest, NotDealing

\* What is lost stays lost.
LEMMA LostGrows ==
  ASSUME Typed, Next
  PROVE  lost \subseteq lost'
<1>1. CASE CalmStep
  BY <1>1, CalmKeeps DEF Typed
<1>2. ASSUME NEW t \in Dealers, Deal(t) PROVE lost \subseteq lost'
  BY <1>2, DealSteps DEF Lose
<1>3. ASSUME NEW v \in Servers, LoginHandler(v) PROVE lost \subseteq lost'
  <2>1. CASE LoginLock(v) \/ LoginKickHere(v) \/ LoginKickThere(v) \/ LoginKicked(v)
             \/ LoginSetMgr(v) \/ LoginReply(v)
    BY <2>1 DEF LoginLock, LoginKickHere, LoginKickThere, LoginKicked, LoginSetMgr, LoginReply, redis
  <2>2. CASE LoginGetIp(v) \/ LoginSetIp(v) \/ LoginSetSession(v) \/ LoginRelease(v)
    BY <2>2 DEF LoginGetIp, LoginSetIp, LoginSetSession, LoginRelease, SetIp, SetSession,
         Released, Lose
  <2> QED
    BY <1>3, <2>1, <2>2 DEF LoginHandler
<1>4. ASSUME NEW v \in Servers, CrashRestart(v) PROVE lost \subseteq lost'
  BY <1>4 DEF CrashRestart
<1>5. ASSUME NEW k \in kicks, NotifyKickUser(k) \/ KickLost(k) PROVE lost \subseteq lost'
  BY <1>5 DEF NotifyKickUser, KickLost, redis
<1>6. ASSUME NEW u \in Users, LockExpires(u) PROVE lost \subseteq lost'
  BY <1>6 DEF LockExpires
<1> QED
  BY <1>1, <1>2, <1>3, <1>4, <1>5, <1>6, StepKinds

LEMMA LoginStageStep ==
  ASSUME Typed, LockHeld, LoginStage, Next
  PROVE  LoginStage'
<1>0. /\ logicQ \in [Servers -> Seq(Requests)] /\ login \in [Servers -> LoginStates]
      /\ uip \in [Users -> Servers \cup {NoServer}] /\ usession \in [Users -> Sessions \cup {NoSession}]
      /\ \A v \in Servers : login[v].pc # "idle" => LoginUser(v) \in Users
  BY DEF Typed, TypeOK, Requests, LoginStates, Busy
<1>1. ASSUME UNCHANGED <<uip, usession>>,
             \A v \in Servers : login'[v].pc # "idle" => login'[v] = login[v] /\ logicQ'[v] = logicQ[v]
      PROVE  LoginStage'
  BY <1>1, LostGrows DEF LoginStage, LoginUser, Asking
<1>2. CASE CalmStep
  BY <1>1, <1>2, CalmKeeps DEF Typed
<1>3. ASSUME NEW t \in Dealers, Deal(t) PROVE LoginStage'
  <2>1. UNCHANGED <<login, logicQ>>
    BY <1>3, DealSteps
  <2>2. CASE UNCHANGED <<uip, usession>>
    BY <1>1, <2>1, <2>2
  <2>3. CASE DealDelSession(t) \/ DealDelIp(t)
    <3>1. /\ deal[t].pc \in InDeal
          /\ \A x \in Users : x # deal[t].u => usession'[x] = usession[x] /\ uip'[x] = uip[x]
      BY <1>0, <2>3 DEF DealDelSession, DealDelIp, DelSession, DelIp, InDeal
    <3>2. \A v \in Servers : login[v].pc \in InLogin =>
            /\ usession'[LoginUser(v)] = usession[LoginUser(v)] /\ uip'[LoginUser(v)] = uip[LoginUser(v)]
      BY <1>0, <3>1, OneInSection DEF InLogin
    <3> QED
      BY <2>1, <3>2, LostGrows DEF LoginStage, LoginUser, Asking, InLogin
  <2> QED
    BY <1>3, <2>2, <2>3 DEF Deal, DealLock, DealCheck, DealClear, DealRelease, redis
<1>4. ASSUME NEW v \in Servers, LoginHandler(v) PROVE LoginStage'
  <2>1. /\ \A w \in Servers : w # v => login'[w] = login[w] /\ logicQ'[w] = logicQ[w]
        /\ login'[v].pc # "idle" => logicQ'[v] = logicQ[v]
        /\ LoginUser(v) \in Users
    BY <1>4, LoginSteps
  <2>2. \A w \in Servers : w # v /\ login[w].pc \in InLogin =>
          /\ uip'[LoginUser(w)] = uip[LoginUser(w)] /\ usession'[LoginUser(w)] = usession[LoginUser(w)]
    <3>1. CASE UNCHANGED <<uip, usession>>
      BY <3>1
    <3>2. CASE LoginSetIp(v) \/ LoginSetSession(v)
      <4>1. /\ login[v].pc \in InLogin
            /\ \A x \in Users : x # LoginUser(v) => usession'[x] = usession[x] /\ uip'[x] = uip[x]
        BY <1>0, <3>2 DEF LoginSetIp, LoginSetSession, SetIp, SetSession, LoginAt, InLogin
      <4> QED
        BY <1>0, <4>1, OneInSection DEF InLogin
    <3> QED
      BY <1>4, <3>1, <3>2, LoginChanges
  <2>3. /\ login'[v].pc = "kickHere" => uip'[LoginUser(v)] = v
        /\ login'[v].pc \in {"kickThere", "kickWait"} => uip'[LoginUser(v)] = login'[v].to
        /\ login'[v].pc \in {"setSession", "setMgr"} /\ <<"setIp", LoginUser(v)>> \notin lost' =>
             uip'[LoginUser(v)] = v
        /\ login'[v].pc = "setMgr" /\ <<"setSession", LoginUser(v)>> \notin lost' =>
             usession'[LoginUser(v)] = Asking(v)
    <3>1. CASE LoginGetIp(v)
      BY <1>0, <2>1, <3>1, LoginGoes DEF LoginGetIp, KickPlace, Typed
    <3>2. CASE LoginKickThere(v)
      BY <3>2, LoginGoes DEF LoginKickThere, LoginAt, LoginStage, redis, Typed
    <3>3. CASE LoginSetIp(v)
      BY <1>0, <2>1, <3>3 DEF LoginSetIp, SetIp, Lose
    <3>4. CASE LoginSetSession(v)
      BY <1>0, <2>1, <3>4, LoginGoes, LostGrows
      DEF LoginSetSession, SetSession, Lose, LoginAt, LoginStage, Typed
    <3>5. CASE LoginLock(v) \/ LoginKickHere(v) \/ LoginSetMgr(v) \/ LoginRelease(v)
      BY <3>5, LoginGoes DEF LoginLock, LoginKickHere, LoginSetMgr, LoginRelease, Typed
    <3>6. CASE LoginKicked(v) \/ LoginReply(v)
      BY <1>0, <3>6 DEF LoginKicked, LoginReply, AtRest
    <3> QED
      BY <1>4, <3>1, <3>2, <3>3, <3>4, <3>5, <3>6 DEF LoginHandler
  <2> QED
    BY <2>1, <2>2, <2>3, LostGrows DEF LoginStage, LoginUser, Asking, InLogin
<1>5. ASSUME NEW v \in Servers, CrashRestart(v) PROVE LoginStage'
  BY <1>0, <1>1, <1>5 DEF CrashRestart, AtRest
<1>6. ASSUME NEW k \in kicks, NotifyKickUser(k) \/ KickLost(k) PROVE LoginStage'
  BY <1>1, <1>6 DEF NotifyKickUser, KickLost, server, redis
<1>7. ASSUME NEW u \in Users, LockExpires(u) PROVE LoginStage'
  BY <1>1, <1>7 DEF LockExpires, server
<1> QED
  BY <1>2, <1>3, <1>4, <1>5, <1>6, <1>7, StepKinds

LEMMA DealStageStep ==
  ASSUME Typed, LockHeld, DealStage, Next
  PROVE  DealStage'
<1>0. /\ deal \in [Dealers -> DealStates] /\ usession \in [Users -> Sessions \cup {NoSession}]
      /\ \A t \in Dealers : deal[t].pc \in {"delSession", "delIp"} =>
           deal[t].u \in Users /\ deal[t].u # NoUser /\ deal[t].pc \in InDeal
  BY NullAssumption DEF Typed, TypeOK, DealStates, DealPlaces, Dealt, InDeal
<1>1. ASSUME usession' = usession,
             \A t \in Dealers : deal'[t] = deal[t] \/ deal'[t].pc \notin {"delSession", "delIp"}
      PROVE  DealStage'
  BY <1>1, LostGrows DEF DealStage
<1>2. CASE CalmStep
  BY <1>1, <1>2, CalmKeeps, BeginsGoes DEF Typed
<1>3. ASSUME NEW t \in Dealers, Deal(t) PROVE DealStage'
  <2>1. CASE DealLock(t)
    BY <1>1, <2>1, DealGoes DEF DealLock, Typed, redis, NotAcquired
  <2>2. CASE DealCheck(t)
    <3>1. usession' = usession /\ \A r \in Dealers : r # t => deal'[r] = deal[r]
      BY <2>2, DealGoes DEF DealCheck, Typed, redis
    <3>2. deal'[t].pc = "clear" \/ (deal'[t].pc = "delSession" /\ OwnSession(deal[t])
                                    /\ deal'[t].u = deal[t].u /\ deal'[t].s = deal[t].s)
      BY <2>2, DealGoes DEF DealCheck, Typed
    <3> QED
      BY <3>1, <3>2, LostGrows DEF DealStage, OwnSession
  <2>3. CASE DealDelSession(t)
    <3>1. /\ deal'[t].pc = "delIp" /\ deal'[t].u = deal[t].u /\ deal[t].pc = "delSession"
          /\ \A r \in Dealers : r # t => deal'[r] = deal[r]
          /\ \/ usession' = [usession EXCEPT ![deal[t].u] = NoSession]
             \/ usession' = usession /\ <<"delSession", deal[t].u>> \in lost'
      BY <2>3, DealGoes DEF DealDelSession, DelSession, Lose, Typed
    <3>2. \A r \in Dealers : r # t /\ deal[r].pc \in {"delSession", "delIp"} => deal[r].u # deal[t].u
      BY <1>0, <3>1, OneInSection
    <3>3. deal'[t].s = deal[t].s /\ usession[deal[t].u] = deal[t].s
      BY <2>3, <3>1, DealGoes DEF DealStage, DealDelSession, Typed
    <3>4. /\ usession'[deal[t].u] \in {NoSession, deal[t].s}
          /\ <<"delSession", deal[t].u>> \notin lost' => usession'[deal[t].u] = NoSession
      BY <1>0, <3>1, <3>3
    <3>5. \A r \in Dealers : r # t /\ deal[r].pc \in {"delSession", "delIp"} =>
            usession'[deal[r].u] = usession[deal[r].u]
      BY <1>0, <3>1, <3>2
    <3> QED
      BY <3>1, <3>3, <3>4, <3>5, LostGrows DEF DealStage
  <2>4. CASE DealDelIp(t)
    BY <1>1, <2>4, DealGoes DEF DealDelIp, Typed
  <2>6. CASE DealClear(t) \/ DealRelease(t)
    <3>1. CASE DealGoesTo(t, "release") /\ usession' = usession
      BY <1>1, <3>1, DealGoes DEF Typed
    <3>2. CASE deal' = [deal EXCEPT ![t] = NotDealing] /\ usession' = usession
      BY <1>0, <1>1, <3>2 DEF NotDealing
    <3> QED
      BY <2>6, <3>1, <3>2 DEF DealClear, DealRelease, redis
  <2> QED
    BY <1>3, <2>1, <2>2, <2>3, <2>4, <2>6 DEF Deal
<1>4. ASSUME NEW v \in Servers, LoginHandler(v) PROVE DealStage'
  <2>1. deal' = deal
    BY <1>4, LoginSteps
  <2>2. CASE usession' = usession
    BY <1>1, <2>1, <2>2
  <2>3. CASE LoginSetSession(v)
    <3>1. /\ login[v].pc \in InLogin
          /\ \A x \in Users : x # LoginUser(v) => usession'[x] = usession[x]
      BY <1>0, <2>3 DEF LoginSetSession, SetSession, LoginAt, InLogin
    <3>2. \A t \in Dealers : deal[t].pc \in {"delSession", "delIp"} => deal[t].u # LoginUser(v)
      BY <1>0, <3>1, OneInSection
    <3> QED
      BY <1>0, <2>1, <3>1, <3>2, LostGrows DEF DealStage
  <2> QED
    BY <1>4, <2>2, <2>3, LoginChanges
<1>5. ASSUME NEW v \in Servers, CrashRestart(v) PROVE DealStage'
  BY <1>0, <1>1, <1>5 DEF CrashRestart, NotDealing
<1>6. ASSUME NEW k \in kicks, NotifyKickUser(k) \/ KickLost(k) PROVE DealStage'
  BY <1>1, <1>6 DEF NotifyKickUser, KickLost, server, redis
<1>7. ASSUME NEW u \in Users, LockExpires(u) PROVE DealStage'
  BY <1>1, <1>7 DEF LockExpires, server
<1> QED
  BY <1>2, <1>3, <1>4, <1>5, <1>6, <1>7, StepKinds

\* A connection is entered by LoginSetMgr only: all other steps leave at most the
\* connections that are valid already.
LEMMA ValidShrinks ==
  ASSUME Typed, Here, Next
  PROVE  \/ \A v \in Servers, u \in Users : Valid(v, u)' => Valid(v, u) /\ userMgr'[v][u] = userMgr[v][u]
         \/ \E v \in Servers : LoginSetMgr(v)
<1>0. /\ userMgr \in [Servers -> [Users -> Sessions \cup {NoSession}]]
      /\ sessions \in [Servers -> SUBSET Sessions]
  BY DEF Typed, TypeOK
<1> DEFINE Shrinks ==
            \A v \in Servers, u \in Users : Valid(v, u)' => Valid(v, u) /\ userMgr'[v][u] = userMgr[v][u]
<1>1. ASSUME \A v \in Servers : sessions'[v] \subseteq sessions[v],
             \A v \in Servers, u \in Users : userMgr'[v][u] \in {userMgr[v][u], NoSession}
      PROVE  Shrinks
  BY <1>1 DEF Valid
<1>2. CASE CalmStep
  <2>1. userMgr' = userMgr
    BY <1>2, CalmKeeps DEF Typed
  <2>2. ASSUME NEW v \in Servers, InsertSession(v) PROVE Shrinks
    <3>1. \A w \in Servers, u \in Users : userMgr[w][u] # NoSession => userMgr[w][u] # accepted[w]
      BY DEF Here, InMaps
    <3> QED
      BY <1>0, <2>1, <2>2, <3>1 DEF InsertSession, Valid
  <2>3. ASSUME NEW s \in Sessions, ReadTooLong(s) PROVE Shrinks
    BY <1>0, <1>1, <2>1, <2>3 DEF ReadTooLong, ClearSession
  <2>4. CASE sessions' = sessions
    BY <1>1, <2>1, <2>4
  <2> QED
    BY <1>2, <2>2, <2>3, <2>4
    DEF CalmStep, HandleAccept, TimerClose, TimerDeal, HandleOther, HandleUnknown, OnTimer, PeerGone, PostWaiting,
        ReadError, WriteDone, WriteError, ReadRequest, server
<1>3. ASSUME NEW t \in Dealers, Deal(t) PROVE Shrinks
  <2>1. userMgr' = userMgr /\ (sessions' = sessions \/ ClearSession(srv[deal[t].s], deal[t].s))
    BY <1>3, DealSteps
  <2> QED
    BY <1>0, <1>1, <2>1 DEF ClearSession
<1>4. ASSUME NEW v \in Servers, LoginHandler(v), ~LoginSetMgr(v) PROVE Shrinks
  <2>1. userMgr' = userMgr /\ LoginUser(v) \in Users
    BY <1>4, LoginChanges, LoginSteps
  <2>2. \A w \in Servers : sessions'[w] \subseteq sessions[w]
    BY <1>4, <2>1, LoginChanges, KickShrinks DEF LoginKickHere
  <2> QED
    BY <1>1, <2>1, <2>2
<1>5. ASSUME NEW v \in Servers, CrashRestart(v) PROVE Shrinks
  BY <1>0, <1>1, <1>5 DEF CrashRestart
<1>6. ASSUME NEW k \in kicks, NotifyKickUser(k) \/ KickLost(k) PROVE Shrinks
  <2>1. k.to \in Servers /\ k.u \in Users
    BY DEF Typed, TypeOK
  <2>2. userMgr' = userMgr /\ \A w \in Servers : sessions'[w] \subseteq sessions[w]
    BY <1>6, <2>1, KickShrinks DEF NotifyKickUser, KickLost, server
  <2> QED
    BY <1>1, <2>2
<1>7. ASSUME NEW u \in Users, LockExpires(u) PROVE Shrinks
  BY <1>1, <1>7 DEF LockExpires, server
<1> QED
  BY <1>2, <1>3, <1>4, <1>5, <1>6, <1>7, StepKinds

\* When the handler of a login has found the place of the user, no connection is
\* valid elsewhere.
LEMMA ElsewhereNone ==
  ASSUME Typed, LockHeld, Current, ~kickFailed,
         NEW v \in Servers, login[v].pc \in InLogin, LoggedIn(LoginUser(v)),
         NEW w \in Servers, Valid(w, LoginUser(v))
  PROVE  uip[LoginUser(v)] = w
<1>1. LoginUser(v) \in Users
  BY DEF Typed, Busy, InLogin
<1>2. \A t \in Dealers : deal[t].pc \in InDeal => deal[t].u # LoginUser(v)
  BY OneInSection
<1> QED
  BY <1>1, <1>2 DEF Current, Clears, InDeal

\* NotifyOffline and ClearSession leave no valid connection of the user at v.
LEMMA KickClears ==
  ASSUME Typed, NEW v \in Servers, NEW u \in Users, Kick(v, u), userMgr' = userMgr
  PROVE  ~Valid(v, u)'
<1>1. sessions \in [Servers -> SUBSET Sessions]
  BY DEF Typed, TypeOK
<1> QED
  BY <1>1 DEF Kick, ClearSession, Valid

\* The kick of the handler at v is done: whoever was valid is not any more.
LEMMA KickStageStep ==
  ASSUME Typed, Here, LockHeld, LoginStage, KickStage, Current, ~MayTimeout, Next
  PROVE  KickStage'
<1> SUFFICES ASSUME ~kickFailed', NEW v \in Servers, Kicked(v)', NEW w \in Servers,
                    LoggedIn(LoginUser(v))', Valid(w, LoginUser(v))'
             PROVE  FALSE
  BY DEF KickStage, NoneValid
<1>11. LoginUser(v)' = LoginUser(v) => LoggedIn(LoginUser(v))
  BY LostGrows DEF LoggedIn, Answered
<1>0. /\ logicQ \in [Servers -> Seq(Requests)] /\ login \in [Servers -> LoginStates]
      /\ kicks \subseteq [from : Servers, to : Servers, u : Users] /\ kickFailed \in BOOLEAN
      /\ \A x \in Servers : login[x].pc # "idle" => LoginUser(x) \in Users
  BY DEF Typed, TypeOK, Requests, LoginStates, Busy
<1>1. \A x \in Servers : login[x].pc \in InLogin => LoginUser(x) \in Users
  BY <1>0 DEF InLogin
<1>2. ASSUME login'[v] = login[v], logicQ'[v] = logicQ[v], kicks' = kicks \/ Kicked(v), ~kickFailed
      PROVE  FALSE
  <2>1. Kicked(v) /\ LoginUser(v)' = LoginUser(v) /\ login[v].pc \in InLogin
    BY <1>2 DEF Kicked, KickOf, LoginUser, InLogin
  <2>2. LoginUser(v) \in Users /\ ~Valid(w, LoginUser(v))
    BY <1>1, <1>2, <1>11, <2>1 DEF KickStage, NoneValid
  <2>3. CASE Valid(w, LoginUser(v))' => Valid(w, LoginUser(v))
    BY <2>1, <2>2, <2>3
  <2>4. ASSUME NEW x \in Servers, LoginSetMgr(x) PROVE FALSE
    <3>1. x # v
      <4>1. login'[x].pc = "release"
        BY <2>4, LoginGoes DEF LoginSetMgr, Typed
      <4> QED
        BY <4>1 DEF Kicked
    <3>2. LoginUser(x) # LoginUser(v)
      BY <2>1, <2>4, <3>1, OneInSection DEF LoginSetMgr, LoginAt, InLogin
    <3>3. userMgr'[w][LoginUser(v)] = userMgr[w][LoginUser(v)] /\ sessions' = sessions
      BY <2>2, <2>4, <3>2 DEF LoginSetMgr, Typed, TypeOK
    <3> QED
      BY <2>1, <2>2, <3>3 DEF Valid
  <2> QED
    BY <2>1, <2>2, <2>3, <2>4, ValidShrinks
<1>3. CASE CalmStep
  <2>1. UNCHANGED <<login, kicks, kickFailed>> /\ logicQ'[v] = logicQ[v]
    BY <1>3, CalmKeeps DEF Typed, Kicked
  <2> QED
    BY <1>2, <2>1
<1>4. ASSUME NEW t \in Dealers, Deal(t) PROVE FALSE
  BY <1>2, <1>4, DealSteps DEF rpc
<1>5. ASSUME NEW x \in Servers, LoginHandler(x) PROVE FALSE
  <2>1. ~kickFailed
    <3>1. kickFailed' = kickFailed \/ kickFailed' = TRUE
      BY <1>5, LoginChanges DEF LoginKicked, KickFails
    <3> QED
      BY <1>0, <3>1
  <2>2. CASE x # v
    <3>1. login'[v] = login[v] /\ logicQ'[v] = logicQ[v]
      BY <1>5, <2>2, LoginSteps
    <3>2. kicks \subseteq kicks'
      BY <1>5, LoginChanges DEF LoginKickThere
    <3>3. Kicked(v)
      BY <3>1, <3>2 DEF Kicked, KickOf, LoginUser
    <3> QED
      BY <1>2, <2>1, <3>1, <3>3
  <2>3. CASE x = v
    <3>1. /\ LoginUser(v) \in Users /\ logicQ'[v] = logicQ[v] /\ LoginUser(v)' = LoginUser(v)
      BY <1>5, <2>3, LoginSteps DEF Kicked, LoginUser
    <3>2. CASE LoginGetIp(v)
      <4>1. /\ userMgr' = userMgr /\ sessions' = sessions
            /\ login'[v] = [pc |-> KickPlace(v, uip[LoginUser(v)]), to |-> uip[LoginUser(v)]]
            /\ login[v].pc \in InLogin
        <5>1. <<"getIp", LoginUser(v)>> \notin lost'
          BY <3>1 DEF LoggedIn, Answered
        <5> QED
          BY <1>0, <3>2, <5>1 DEF LoginGetIp, LoginAt, InLogin, Lose
      <4>2. uip[LoginUser(v)] = NoServer
        BY <4>1 DEF Kicked, KickPlace
      <4>3. Valid(w, LoginUser(v))
        BY <3>1, <4>1 DEF Valid
      <4> QED
        BY <1>11, <2>1, <3>1, <4>1, <4>2, <4>3, ElsewhereNone, NullAssumption
    <3>3. CASE LoginKickHere(v)
      <4>1. /\ login[v].pc = "kickHere" /\ login[v].pc \in InLogin /\ userMgr' = userMgr
            /\ Kick(v, LoginUser(v)) /\ \A y \in Servers : sessions'[y] \subseteq sessions[y]
        BY <3>1, <3>3, KickShrinks DEF LoginKickHere, LoginAt, InLogin
      <4>2. uip[LoginUser(v)] = v
        BY <4>1 DEF LoginStage
      <4>3. Valid(w, LoginUser(v)) /\ (w = v => ~Valid(w, LoginUser(v))')
        <5>1. ~Valid(v, LoginUser(v))'
          BY <3>1, <4>1, KickClears DEF Valid
        <5> QED
          BY <3>1, <4>1, <5>1 DEF Valid
      <4> QED
        BY <1>11, <2>1, <3>1, <4>1, <4>2, <4>3, ElsewhereNone
    <3>4. CASE LoginKickThere(v)
      <4>1. login'[v].pc = "kickWait" /\ login'[v].to = login[v].to
        BY <3>4, LoginGoes DEF LoginKickThere, Typed
      <4>2. KickOf(v)' \in kicks'
        BY <3>1, <3>4, <4>1 DEF LoginKickThere, KickOf, LoginUser
      <4> QED
        BY <4>1, <4>2 DEF Kicked
    <3>5. CASE LoginKicked(v)
      <4>1. Kicked(v) /\ UNCHANGED <<userMgr, sessions>>
        BY <3>5 DEF LoginKicked, KickFails, LoginAt, Kicked, KickOf
      <4> QED
        BY <1>11, <2>1, <3>1, <4>1 DEF KickStage, NoneValid, Valid
    <3>6. CASE LoginSetIp(v) \/ LoginSetSession(v)
      <4>1. Kicked(v) /\ UNCHANGED <<userMgr, sessions>>
        BY <3>6 DEF LoginSetIp, LoginSetSession, LoginAt, Kicked
      <4> QED
        BY <1>11, <2>1, <3>1, <4>1 DEF KickStage, NoneValid, Valid
    <3>7. CASE LoginLock(v) \/ LoginSetMgr(v) \/ LoginRelease(v)
      <4>1. login'[v].pc \in {"getIp", "release", "reply"}
        BY <3>7, LoginGoes DEF LoginLock, LoginSetMgr, LoginRelease, Typed
      <4> QED
        BY <4>1 DEF Kicked
    <3>8. CASE LoginReply(v)
      BY <1>0, <3>8 DEF LoginReply, AtRest, Kicked
    <3> QED
      BY <1>5, <2>3, <3>2, <3>3, <3>4, <3>5, <3>6, <3>7, <3>8 DEF LoginHandler
  <2> QED
    BY <2>2, <2>3
\* A kick is over: served, or its callee has died, and with it what was valid there.
<1>6. ASSUME login'[v] = login[v], logicQ'[v] = logicQ[v], ~Kicked(v), ~kickFailed,
             Valid(w, LoginUser(v)), login[v].to # w
      PROVE  FALSE
  <2>1. login[v].pc = "kickWait" /\ login[v].pc \in InLogin
    BY <1>6 DEF Kicked, InLogin
  <2>2. LoginUser(v)' = LoginUser(v)
    BY <1>6 DEF LoginUser
  <2> QED
    BY <1>6, <1>11, <2>1, <2>2, ElsewhereNone DEF LoginStage
<1>7. ASSUME NEW x \in Servers, CrashRestart(x) PROVE FALSE
  <2>1. /\ login'[v] = login[v] /\ logicQ'[v] = logicQ[v] /\ kickFailed' = kickFailed
        /\ kicks' = {k \in kicks : k.to # x} /\ userMgr'[x] = [u \in Users |-> NoSession]
    BY <1>0, <1>7 DEF CrashRestart, AtRest, Kicked, Typed, TypeOK
  <2>2. LoginUser(v)' = LoginUser(v) /\ LoginUser(v) \in Users /\ w # x
    BY <1>0, <2>1 DEF LoginUser, Kicked, Valid
  <2>3. Valid(w, LoginUser(v))
    <3>1. \A y \in Servers : LoginSetMgr(y) => crashes' = crashes
      BY DEF LoginSetMgr, LoginKeeps
    <3>2. crashes' # crashes
      BY <1>7 DEF CrashRestart, Typed, TypeOK
    <3> QED
      BY <2>2, <3>1, <3>2, ValidShrinks
  <2>4. CASE Kicked(v)
    BY <1>2, <2>1, <2>4
  <2>5. CASE ~Kicked(v)
    <3>1. login[v].to = x
      BY <2>1, <2>5 DEF Kicked, KickOf, LoginUser
    <3> QED
      BY <1>6, <2>1, <2>2, <2>3, <2>5, <3>1
  <2> QED
    BY <2>4, <2>5
<1>8. ASSUME NEW k \in kicks, NotifyKickUser(k) PROVE FALSE
  <2>1. /\ UNCHANGED <<login, logicQ, kickFailed, userMgr>> /\ kicks' = kicks \ {k}
        /\ k.to \in Servers /\ k.u \in Users /\ Kick(k.to, k.u)
    BY <1>0, <1>8 DEF NotifyKickUser
  <2>2. LoginUser(v)' = LoginUser(v) /\ LoginUser(v) \in Users
    BY <1>0, <2>1 DEF LoginUser, Kicked
  <2>3. Valid(w, LoginUser(v)) /\ ~Valid(k.to, k.u)'
    BY <2>1, <2>2, KickShrinks, KickClears DEF Valid
  <2>4. CASE Kicked(v)
    BY <1>2, <2>1, <2>4
  <2>5. CASE ~Kicked(v)
    <3>1. k = KickOf(v)
      BY <2>1, <2>5 DEF Kicked, KickOf, LoginUser
    <3>2. login[v].to = k.to /\ LoginUser(v) = k.u
      BY <3>1 DEF KickOf
    <3> QED
      BY <1>6, <2>1, <2>2, <2>3, <2>5, <3>2
  <2> QED
    BY <2>4, <2>5
<1>9. ASSUME NEW k \in kicks, KickLost(k) PROVE FALSE
  BY <1>0, <1>9 DEF KickLost, KickFails
<1>10. ASSUME NEW u \in Users, LockExpires(u) PROVE FALSE
  BY <1>2, <1>10 DEF LockExpires, server, rpc
<1> QED
  BY <1>3, <1>4, <1>5, <1>7, <1>8, <1>9, <1>10, StepKinds

\* A valid connection stays the one Redis names until its clean-up throws it out.
LEMMA CurrentStep ==
  ASSUME Typed, Here, LockHeld, LoginStage, DealStage, KickStage, Current, ~MayTimeout, Next
  PROVE  Current'
<1> SUFFICES ASSUME ~kickFailed', NEW u \in Users, NEW v \in Servers, Valid(v, u)', LoggedIn(u)'
             PROVE  \/ usession'[u] = userMgr'[v][u] /\ uip'[u] = v
                    \/ \E t \in Dealers : Clears(t, u, userMgr[v][u])'
  BY DEF Current
<1>9. LoggedIn(u)
  BY LostGrows DEF LoggedIn, Answered
<1>0. /\ logicQ \in [Servers -> Seq(Requests)] /\ deal \in [Dealers -> DealStates]
      /\ uip \in [Users -> Servers \cup {NoServer}] /\ usession \in [Users -> Sessions \cup {NoSession}]
      /\ kickFailed \in BOOLEAN /\ u # NoUser
  BY NullAssumption DEF Typed, TypeOK, Requests, DealStates, DealPlaces
<1> DEFINE Named   == usession[u] = userMgr[v][u] /\ uip[u] = v
           Goal    == \/ usession'[u] = userMgr'[v][u] /\ uip'[u] = v
                      \/ \E t \in Dealers : Clears(t, u, userMgr[v][u])'
\* Nothing new became valid, and what is still valid was found named, or being cleared.
<1>1. ASSUME ~kickFailed, \A x \in Servers : ~LoginSetMgr(x)
      PROVE  /\ Valid(v, u) /\ userMgr'[v][u] = userMgr[v][u]
             /\ Named \/ \E t \in Dealers : Clears(t, u, userMgr[v][u])
  BY <1>1, <1>9, ValidShrinks DEF Current
<1>2. ASSUME ~kickFailed, \A x \in Servers : ~LoginSetMgr(x),
             usession'[u] = usession[u], uip'[u] = uip[u],
             \A t \in Dealers : Clears(t, u, userMgr[v][u]) => deal'[t] = deal[t]
      PROVE  Goal
  BY <1>1, <1>2 DEF Clears
<1>3. CASE CalmStep
  <2>1. /\ UNCHANGED <<userMgr, login, kickFailed, uip, usession>>
        /\ \A t \in Dealers : deal[t].pc \in {"delIp", "clear"} => deal'[t] = deal[t]
    BY <1>3, CalmKeeps DEF Typed, Begins, NotDealing
  <2>2. \A x \in Servers : ~LoginSetMgr(x)
    BY <2>1, LoginGoes DEF LoginSetMgr, LoginAt, Typed
  <2> QED
    BY <1>2, <2>1, <2>2 DEF Clears
<1>4. ASSUME NEW t \in Dealers, Deal(t) PROVE Goal
  <2>1. ~kickFailed /\ userMgr' = userMgr /\ login' = login
    BY <1>4, DealSteps DEF rpc
  <2>2. \A x \in Servers : ~LoginSetMgr(x)
    BY <2>1, LoginGoes DEF LoginSetMgr, LoginAt, Typed
  <2>3. CASE DealLock(t) \/ DealCheck(t)
    <3>1. /\ UNCHANGED <<uip, usession>> /\ deal[t].pc \notin {"delIp", "clear"}
          /\ \A r \in Dealers : r # t => deal'[r] = deal[r]
      BY <1>0, <2>3, DealGoes DEF DealLock, DealCheck, redis, Typed
    <3> QED
      BY <1>2, <2>1, <2>2, <3>1 DEF Clears
  <2>4. CASE DealDelSession(t)
    <3>1. /\ deal[t].pc = "delSession" /\ deal'[t].pc = "delIp"
          /\ deal'[t].u = deal[t].u /\ deal'[t].s = deal[t].s
          /\ \A r \in Dealers : r # t => deal'[r] = deal[r]
          /\ usession' = usession \/ usession' = [usession EXCEPT ![deal[t].u] = NoSession]
          /\ uip' = uip
      BY <2>4, DealGoes DEF DealDelSession, DelSession, Typed
    <3>2. CASE deal[t].u = u /\ Named
      <4>1. usession[u] = deal[t].s
        BY <3>1, <3>2 DEF DealStage
      <4> QED
        BY <2>1, <3>1, <3>2, <4>1 DEF Clears
    <3>3. CASE deal[t].u # u \/ ~Named
      <4>1. deal[t].u # u => usession'[u] = usession[u]
        BY <1>0, <3>1
      <4>2. \A r \in Dealers : Clears(r, u, userMgr[v][u]) => deal'[r] = deal[r]
        BY <3>1 DEF Clears
      <4>3. Named \/ \E r \in Dealers : Clears(r, u, userMgr[v][u])
        BY <1>1, <2>1, <2>2
      <4> QED
        BY <2>1, <3>1, <3>3, <4>1, <4>2, <4>3 DEF Clears
    <3> QED
      BY <3>2, <3>3
  <2>5. CASE DealDelIp(t)
    <3>1. /\ deal[t].pc = "delIp" /\ deal'[t].pc = "clear"
          /\ deal'[t].u = deal[t].u /\ deal'[t].s = deal[t].s
          /\ \A r \in Dealers : r # t => deal'[r] = deal[r]
          /\ uip' = uip \/ uip' = [uip EXCEPT ![deal[t].u] = NoServer]
          /\ usession' = usession
      BY <2>5, DealGoes DEF DealDelIp, DelIp, Typed
    <3>2. CASE deal[t].u = u /\ Named
      <4>1. usession[u] = deal[t].s
        BY <1>1, <2>1, <2>2, <3>1, <3>2 DEF DealStage, Valid
      <4> QED
        BY <2>1, <3>1, <3>2, <4>1 DEF Clears
    <3>3. CASE deal[t].u # u \/ ~Named
      <4>1. deal[t].u # u => uip'[u] = uip[u]
        BY <1>0, <3>1
      <4>2. \A r \in Dealers : Clears(r, u, userMgr[v][u]) => Clears(r, u, userMgr[v][u])'
        BY <2>1, <3>1 DEF Clears
      <4> QED
        BY <1>1, <2>1, <2>2, <3>1, <3>3, <4>1, <4>2
    <3> QED
      BY <3>2, <3>3
  <2>6. CASE DealClear(t)
    <3>0. \A r \in Dealers : r # t => deal'[r] = deal[r]
      BY <1>0, <2>6 DEF DealClear, DealGoesTo
    <3>1. /\ UNCHANGED <<uip, usession>> /\ \A r \in Dealers : r # t => deal'[r] = deal[r]
          /\ sessions' = [sessions EXCEPT ![srv[deal[t].s]] = @ \ {deal[t].s}]
      BY <2>6, <3>0 DEF DealClear, ClearSession, redis
    <3>2. ~Clears(t, u, userMgr[v][u])
      <4>1. SUFFICES ASSUME deal[t].s = userMgr[v][u] PROVE FALSE
        BY DEF Clears
      <4>2. srv[userMgr[v][u]] = v
        BY <1>1, <2>1, <2>2 DEF Valid, Here, InMaps
      <4> QED
        BY <2>1, <3>1, <4>1, <4>2 DEF Valid, Typed, TypeOK
    <3> QED
      BY <1>2, <2>1, <2>2, <3>1, <3>2
  <2>7. CASE DealRelease(t)
    <3>1. /\ UNCHANGED <<uip, usession>> /\ deal[t].pc = "release"
          /\ \A r \in Dealers : r # t => deal'[r] = deal[r]
      BY <1>0, <2>7 DEF DealRelease, redis
    <3> QED
      BY <1>2, <2>1, <2>2, <3>1 DEF Clears
  <2> QED
    BY <1>4, <2>3, <2>4, <2>5, <2>6, <2>7 DEF Deal
<1>5. ASSUME NEW x \in Servers, LoginHandler(x) PROVE Goal
  <2>1. ~kickFailed
    <3>1. kickFailed' = kickFailed \/ kickFailed' = TRUE
      BY <1>5, LoginChanges DEF LoginKicked, KickFails
    <3> QED
      BY <1>0, <3>1
  <2>2. deal' = deal /\ LoginUser(x) \in Users
    BY <1>5, LoginSteps
  <2>3. CASE LoginSetMgr(x)
    <3>1. /\ login[x].pc = "setMgr" /\ login[x].pc \in InLogin /\ UNCHANGED <<sessions, uip, usession>>
          /\ userMgr' = [userMgr EXCEPT ![x][LoginUser(x)] = Asking(x)]
      BY <2>3 DEF LoginSetMgr, LoginAt, InLogin, redis
    <3>2. LoggedIn(LoginUser(x)) => uip[LoginUser(x)] = x /\ usession[LoginUser(x)] = Asking(x)
      BY <3>1 DEF LoginStage, LoggedIn, Answered
    <3>3. CASE v = x /\ u = LoginUser(x)
      <4>1. userMgr'[v][u] = Asking(x)
        BY <3>1, <3>3 DEF Typed, TypeOK
      <4> QED
        BY <1>9, <3>1, <3>2, <3>3, <4>1
    <3>4. CASE ~(v = x /\ u = LoginUser(x))
      <4>1. userMgr'[v][u] = userMgr[v][u]
        BY <3>1, <3>4 DEF Typed, TypeOK
      <4>2. Valid(v, u)
        BY <3>1, <4>1 DEF Valid
      <4> QED
        BY <1>9, <2>1, <2>2, <3>1, <4>1, <4>2 DEF Current, Clears
    <3> QED
      BY <3>3, <3>4
  <2>4. CASE ~LoginSetMgr(x)
    <3>1. \A y \in Servers : ~LoginSetMgr(y)
      <4>1. ASSUME NEW y \in Servers, y # x, LoginSetMgr(y) PROVE FALSE
        <5>1. login'[y] = login[y]
          BY <1>5, <4>1, LoginSteps
        <5> QED
          BY <4>1, <5>1, LoginGoes DEF LoginSetMgr, LoginAt, Typed
      <4> QED
        BY <2>4, <4>1
    <3>2. CASE UNCHANGED <<uip, usession>>
      BY <1>2, <2>1, <2>2, <3>1, <3>2
    <3>3. CASE LoginSetIp(x) \/ LoginSetSession(x)
      <4>1. Kicked(x) /\ \A y \in Users : y # LoginUser(x) => uip'[y] = uip[y] /\ usession'[y] = usession[y]
        BY <1>0, <3>3 DEF LoginSetIp, LoginSetSession, SetIp, SetSession, LoginAt, Kicked
      <4>2. u # LoginUser(x)
        BY <1>1, <1>9, <2>1, <3>1, <4>1 DEF KickStage, NoneValid
      <4> QED
        BY <1>2, <2>1, <2>2, <3>1, <4>1, <4>2
    <3> QED
      BY <1>5, <3>2, <3>3, LoginChanges
  <2> QED
    BY <2>3, <2>4
<1>6. ASSUME NEW x \in Servers, CrashRestart(x) PROVE Goal
  <2>1. ~kickFailed /\ UNCHANGED <<uip, usession>>
    BY <1>6 DEF CrashRestart
  <2>2. \A y \in Servers : ~LoginSetMgr(y)
    BY <1>6 DEF CrashRestart, LoginSetMgr, LoginKeeps, Typed, TypeOK
  <2>3. Valid(v, u) /\ v # x
    BY <1>1, <1>6, <2>1, <2>2 DEF CrashRestart, Valid, Typed, TypeOK
  <2>4. ASSUME NEW t \in Dealers, Clears(t, u, userMgr[v][u]) PROVE deal'[t] = deal[t]
    <3>1. srv[deal[t].s] = v /\ deal[t].pc # "no"
      BY <2>3, <2>4 DEF Clears, Valid, Here, InMaps
    <3>2. t # Main(x) /\ t # Worker(x)
      BY <2>3, <3>1, ThreadNames DEF Here, InCleanUp
    <3>3. \A s \in On(x) : t # Io(s)
      BY <2>3, <3>1 DEF On, Here, InCleanUp
    <3> QED
      BY <1>6, <3>2, <3>3 DEF CrashRestart, ThreadsOf
  <2> QED
    BY <1>2, <2>1, <2>2, <2>4
<1>7. ASSUME NEW k \in kicks, NotifyKickUser(k) \/ KickLost(k) PROVE Goal
  <2>1. UNCHANGED <<login, uip, usession, deal>> /\ kickFailed' = kickFailed
    BY <1>7 DEF NotifyKickUser, KickLost, KickFails, server, redis
  <2>2. \A y \in Servers : ~LoginSetMgr(y)
    BY <2>1, LoginGoes DEF LoginSetMgr, LoginAt, Typed
  <2> QED
    BY <1>2, <2>1, <2>2
<1>8. ASSUME NEW x \in Users, LockExpires(x) PROVE Goal
  <2>1. UNCHANGED <<login, uip, usession, deal, kickFailed>>
    BY <1>8 DEF LockExpires, server, rpc
  <2>2. \A y \in Servers : ~LoginSetMgr(y)
    BY <2>1, LoginGoes DEF LoginSetMgr, LoginAt, Typed
  <2> QED
    BY <1>2, <2>1, <2>2
<1> QED
  BY <1>3, <1>4, <1>5, <1>6, <1>7, <1>8, StepKinds

\* One key of a user is written or deleted after the other, and nobody comes between.
LEMMA PairedStep ==
  ASSUME Typed, Here, LockHeld, LoginStage, DealStage, Paired, Next
  PROVE  Paired'
<1> SUFFICES ASSUME crashes' = 0, NEW u \in Users, WritesDone(u)'
             PROVE  \/ Fit(u)'
                    \/ \E v \in Servers : (login[v].pc = "setSession" /\ LoginUser(v) = u)'
                    \/ \E t \in Dealers : (deal[t].pc = "delIp" /\ deal[t].u = u)'
  BY DEF Paired
<1> DEFINE Between == \/ \E v \in Servers : login[v].pc = "setSession" /\ LoginUser(v) = u
                      \/ \E t \in Dealers : deal[t].pc = "delIp" /\ deal[t].u = u
<1>0. /\ logicQ \in [Servers -> Seq(Requests)] /\ login \in [Servers -> LoginStates]
      /\ deal \in [Dealers -> DealStates] /\ srv \in [Sessions -> Servers \cup {NoServer}]
      /\ uip \in [Users -> Servers \cup {NoServer}] /\ usession \in [Users -> Sessions \cup {NoSession}]
  BY DEF Typed, TypeOK, Requests, LoginStates, DealStates, DealPlaces
<1>1. ~\E v \in Servers : CrashRestart(v)
  BY DEF CrashRestart, Typed, TypeOK
<1>2. crashes = 0
  <2>1. CASE CalmStep
    BY <2>1, CalmKeeps DEF Typed
  <2>2. CASE \E t \in Dealers : Deal(t)
    BY <2>2, DealSteps
  <2>3. CASE \E v \in Servers : LoginHandler(v)
    BY <2>3, LoginSteps
  <2>4. CASE (\E k \in kicks : NotifyKickUser(k) \/ KickLost(k)) \/ \E x \in Users : LockExpires(x)
    BY <2>4 DEF NotifyKickUser, KickLost, LockExpires
  <2> QED
    BY <1>1, <2>1, <2>2, <2>3, <2>4, StepKinds
<1>10. WritesDone(u)
  BY LostGrows DEF WritesDone, Answered
<1>11. \A c \in {"setIp", "setSession", "delSession", "delIp"} : <<c, u>> \notin lost /\ <<c, u>> \notin lost'
  BY <1>10 DEF WritesDone, Answered
<1>3. Fit(u) \/ Between
  BY <1>2, <1>10 DEF Paired
<1>4. ASSUME uip'[u] = uip[u], usession'[u] = usession[u],
             \A s \in Sessions : srv'[s] = srv[s] \/ sock[s] = "new",
             \A v \in Servers : login[v].pc = "setSession" => login'[v] = login[v] /\ logicQ'[v] = logicQ[v],
             \A t \in Dealers : deal[t].pc = "delIp" => deal'[t] = deal[t]
      PROVE  Fit(u)' \/ Between'
  <2>1. usession[u] # NoSession => srv'[usession[u]] = srv[usession[u]]
    BY <1>0, <1>4, NullAssumption DEF Here, InMaps, Placed
  <2> QED
    BY <1>3, <1>4, <2>1 DEF Fit, LoginUser
<1>5. CASE CalmStep
  <2>1. /\ UNCHANGED <<login, uip, usession>>
        /\ \A v \in Servers : login[v].pc # "idle" => logicQ'[v] = logicQ[v]
        /\ \A t \in Dealers : deal[t].pc = "delIp" => deal'[t] = deal[t]
        /\ \A s \in Sessions : srv'[s] = srv[s] \/ sock[s] = "new"
    BY <1>5, CalmKeeps DEF Typed, Begins, NotDealing
  <2> QED
    BY <1>4, <2>1
<1>6. ASSUME NEW t \in Dealers, Deal(t) PROVE Fit(u)' \/ Between'
  <2>1. UNCHANGED <<login, logicQ, srv>>
    BY <1>6, DealSteps DEF connection
  <2>2. CASE DealLock(t) \/ DealCheck(t) \/ DealClear(t) \/ DealRelease(t)
    <3>1. UNCHANGED <<uip, usession>> /\ \A r \in Dealers : deal[r].pc = "delIp" => deal'[r] = deal[r]
      BY <1>0, <2>2, DealGoes DEF DealLock, DealCheck, DealClear, DealRelease, redis, Typed
    <3> QED
      BY <1>4, <2>1, <3>1
  <2>3. CASE DealDelSession(t)
    <3>1. /\ deal[t].pc = "delSession" /\ deal'[t].pc = "delIp" /\ deal'[t].u = deal[t].u
          /\ \A r \in Dealers : r # t => deal'[r] = deal[r]
          /\ usession' = usession \/ usession' = [usession EXCEPT ![deal[t].u] = NoSession]
          /\ uip' = uip
      BY <2>3, DealGoes DEF DealDelSession, DelSession, Typed
    <3>2. CASE deal[t].u = u
      BY <3>1, <3>2
    <3>3. CASE deal[t].u # u
      BY <1>0, <1>4, <2>1, <3>1, <3>3
    <3> QED
      BY <3>2, <3>3
  <2>4. CASE DealDelIp(t)
    <3>1. /\ deal[t].pc = "delIp" /\ \A r \in Dealers : r # t => deal'[r] = deal[r]
          /\ \/ uip' = [uip EXCEPT ![deal[t].u] = NoServer]
             \/ uip' = uip /\ <<"delIp", deal[t].u>> \in lost'
          /\ usession' = usession
      BY <2>4, DealGoes DEF DealDelIp, DelIp, Lose, Typed
    <3>2. CASE deal[t].u = u
      <4>1. usession[u] = NoSession /\ uip' = [uip EXCEPT ![u] = NoServer]
        BY <1>11, <3>1, <3>2 DEF DealStage
      <4> QED
        BY <1>0, <3>1, <3>2, <4>1 DEF Fit
    <3>3. CASE deal[t].u # u
      BY <1>0, <1>3, <2>1, <3>1, <3>3 DEF Fit, LoginUser
    <3> QED
      BY <3>2, <3>3
  <2> QED
    BY <1>6, <2>2, <2>3, <2>4 DEF Deal
<1>7. ASSUME NEW v \in Servers, LoginHandler(v) PROVE Fit(u)' \/ Between'
  <2>1. /\ \A w \in Servers : w # v => login'[w] = login[w] /\ logicQ'[w] = logicQ[w]
        /\ login'[v].pc # "idle" => logicQ'[v] = logicQ[v]
        /\ UNCHANGED <<srv, deal>>
    BY <1>7, LoginSteps
  <2>2. CASE LoginSetIp(v)
    <3>1. /\ login'[v].pc = "setSession" /\ logicQ'[v] = logicQ[v] /\ login[v].pc = "setIp"
          /\ uip' = uip \/ uip' = [uip EXCEPT ![LoginUser(v)] = v]
          /\ usession' = usession
      BY <1>0, <2>2 DEF LoginSetIp, SetIp, LoginAt
    <3>2. CASE LoginUser(v) = u
      BY <3>1, <3>2 DEF LoginUser
    <3>3. CASE LoginUser(v) # u
      <4>1. \A w \in Servers : login[w].pc = "setSession" => w # v
        BY <3>1
      <4> QED
        BY <1>0, <1>4, <2>1, <3>1, <3>3, <4>1
    <3> QED
      BY <3>2, <3>3
  <2>3. CASE LoginSetSession(v)
    <3>1. /\ uip' = uip
          /\ \/ usession' = [usession EXCEPT ![LoginUser(v)] = Asking(v)]
             \/ usession' = usession /\ <<"setSession", LoginUser(v)>> \in lost'
          /\ <<"setIp", LoginUser(v)>> \notin lost => uip[LoginUser(v)] = v
      BY <2>3 DEF LoginSetSession, SetSession, Lose, LoginAt, LoginStage
    <3>2. CASE LoginUser(v) = u
      <4>1. logicQ[v] \in Seq(Requests) /\ logicQ[v] # <<>>
        BY <1>0, <2>3 DEF LoginSetSession, LoginAt
      <4>2. srv[Asking(v)] = v /\ Asking(v) \in Sessions
        BY <4>1, QueuePop DEF Here, InQueues, Asking
      <4>3. usession'[u] = Asking(v) /\ uip'[u] = v
        BY <1>0, <1>11, <3>1, <3>2
      <4> QED
        BY <2>1, <4>2, <4>3, NullAssumption DEF Fit
    <3>3. CASE LoginUser(v) # u
      <4>1. usession'[u] = usession[u] /\ uip'[u] = uip[u]
        BY <1>0, <3>1, <3>3
      <4> QED
        BY <1>3, <2>1, <3>3, <4>1 DEF Fit, LoginUser
    <3> QED
      BY <3>2, <3>3
  <2>4. CASE ~LoginSetIp(v) /\ ~LoginSetSession(v)
    <3>1. UNCHANGED <<uip, usession>>
      BY <1>7, <2>4, LoginChanges
    <3>2. login[v].pc # "setSession"
      BY <1>7, <2>4 DEF LoginHandler, LoginLock, LoginGetIp, LoginKickHere, LoginKickThere, LoginKicked,
           LoginSetMgr, LoginRelease, LoginReply, LoginAt
    <3> QED
      BY <1>4, <2>1, <3>1, <3>2
  <2> QED
    BY <2>2, <2>3, <2>4
<1>8. ASSUME NEW k \in kicks, NotifyKickUser(k) \/ KickLost(k) PROVE Fit(u)' \/ Between'
  BY <1>4, <1>8 DEF NotifyKickUser, KickLost, connection, server, redis
<1>9. ASSUME NEW x \in Users, LockExpires(x) PROVE Fit(u)' \/ Between'
  BY <1>4, <1>9 DEF LockExpires, connection, server
<1> QED
  BY <1>1, <1>5, <1>6, <1>7, <1>8, <1>9, StepKinds

Presence == /\ Typed /\ Here /\ LockHeld
            /\ LoginStage /\ DealStage /\ KickStage /\ Current /\ Paired

LEMMA PresenceStep == ~MayTimeout /\ Presence /\ [Next]_vars => Presence'
<1>1. ASSUME ~MayTimeout, Presence, Next PROVE Presence'
  <2>1. Typed'
    BY <1>1, TypedStep DEF Presence
  <2> QED
    BY <1>1, <2>1, HereStep, LockHeldStep, LoginStageStep, DealStageStep,
       KickStageStep, CurrentStep, PairedStep
    DEF Presence
<1>2. ASSUME Presence, UNCHANGED vars PROVE Presence'
  <2>1. Typed'
    BY <1>2, TypedStep DEF Presence
  <2>2. Here'
    BY <1>2 DEF Presence, Here, Placed, InTables, InQueues, InMaps, InCleanUp,
                vars, connection, server, redis, rpc
  <2>3. LockHeld' /\ LoginStage' /\ DealStage'
    BY <1>2 DEF Presence, LockHeld, LoginStage, DealStage, LoginUser, Asking,
                vars, connection, server, redis, rpc
  <2>4. KickStage' /\ Current' /\ Paired'
    BY <1>2 DEF Presence, KickStage, Kicked, KickOf, NoneValid, Valid, Current, Clears, Paired, Fit,
                LoggedIn, WritesDone, Answered, LoginUser, vars, connection, server, redis, rpc
  <2> QED
    BY <2>1, <2>2, <2>3, <2>4 DEF Presence
<1> QED
  BY <1>1, <1>2

LEMMA PresenceHolds == ASSUME ~MayTimeout PROVE Spec => []Presence
<1>1. Init => Presence
  BY InitTyped, InitHere, InitLockHeld, InitPresence DEF Presence
<1>2. Presence /\ [Next]_vars => Presence'
  BY PresenceStep
<1> QED
  BY <1>1, <1>2, PTL DEF Spec

\* Two threads are never inside the section of a user's lock together, whether they
\* log in or clean up and wherever they run, also when a server dies inside.
Exclusive ==
  /\ \A v, w \in Servers :
       login[v].pc \in InLogin /\ login[w].pc \in InLogin /\ LoginUser(v) = LoginUser(w) => v = w
  /\ \A v \in Servers, t \in Dealers :
       login[v].pc \in InLogin /\ deal[t].pc \in InDeal => deal[t].u # LoginUser(v)
  /\ \A r, t \in Dealers :
       deal[r].pc \in InDeal /\ deal[t].pc \in InDeal /\ deal[r].u = deal[t].u
       /\ deal[t].u # NoUser => r = t

\* LOCK_PREFIX's lock does exclude, as long as it is granted and not outlasted
\* (LoginHandler, DealExceptionSession).
THEOREM SectionsExclude == ASSUME ~MayTimeout PROVE Spec => []Exclusive
<1>1. Presence => Exclusive
  BY OneInSection DEF Presence, Exclusive
<1> QED
  BY <1>1, PresenceHolds, PTL

\* At no moment, inside the section or outside, do two servers know a connection of
\* one user and accept its requests, as long as no kick has failed and no command of
\* a login was lost for that user.
OneValid == ~kickFailed => \A u \in Users, v, w \in Servers :
  LoggedIn(u) /\ Valid(v, u) /\ Valid(w, u) => v = w

LEMMA OneValidStep == Presence /\ OneValid /\ [Next]_vars => OneValid'
<1>1. ASSUME Presence, OneValid, Next PROVE OneValid'
  <2> SUFFICES ASSUME ~kickFailed', NEW u \in Users, NEW v \in Servers, NEW w \in Servers,
                      LoggedIn(u)', Valid(v, u)', Valid(w, u)'
               PROVE  v = w
    BY DEF OneValid
  <2>0. /\ Typed /\ Here /\ KickStage
        /\ userMgr \in [Servers -> [Users -> Sessions \cup {NoSession}]]
    BY <1>1 DEF Presence, Typed, TypeOK
  <2>4. LoggedIn(u)
    BY <1>1, <2>0, LostGrows DEF LoggedIn, Answered
  <2>1. ~kickFailed
    <3>1. CASE CalmStep
      BY <2>0, <3>1, CalmKeeps DEF Typed
    <3>2. CASE \E t \in Dealers : Deal(t)
      BY <3>2, DealSteps DEF rpc
    <3>3. ASSUME NEW x \in Servers, LoginHandler(x) PROVE ~kickFailed
      BY <3>3, LoginChanges DEF LoginKicked, KickFails
    <3>4. CASE \/ \E x \in Servers : CrashRestart(x)
               \/ \E k \in kicks : NotifyKickUser(k) \/ KickLost(k)
               \/ \E x \in Users : LockExpires(x)
      BY <3>4 DEF CrashRestart, NotifyKickUser, KickLost, KickFails, LockExpires, rpc
    <3> QED
      BY <1>1, <3>1, <3>2, <3>3, <3>4, StepKinds
  <2>2. CASE Valid(v, u) /\ Valid(w, u)
    BY <1>1, <2>1, <2>2, <2>4 DEF OneValid
  <2>3. ASSUME NEW x \in Servers, LoginSetMgr(x) PROVE v = w
    <3>1. /\ login[x].pc = "setMgr" /\ sessions' = sessions
          /\ userMgr' = [userMgr EXCEPT ![x][LoginUser(x)] = Asking(x)]
      BY <2>3 DEF LoginSetMgr, LoginAt
    <3>2. LoginUser(x) = u => NoneValid(u)
      BY <2>0, <2>1, <2>4, <3>1 DEF KickStage, Kicked
    <3>3. \A y \in Servers : Valid(y, u)' => Valid(y, u) \/ (y = x /\ LoginUser(x) = u)
      BY <2>0, <3>1 DEF Valid
    <3> QED
      BY <2>2, <3>2, <3>3 DEF NoneValid
  <2> QED
    BY <1>1, <2>0, <2>2, <2>3, ValidShrinks
<1>2. ASSUME OneValid, UNCHANGED vars PROVE OneValid'
  BY <1>2 DEF OneValid, Valid, LoggedIn, Answered, vars, server, redis, rpc
<1> QED
  BY <1>1, <1>2

\* That is so at every moment while the lock is granted and not outlasted: a login
\* writes UserMgr only when the user's earlier connection is out of its server's table,
\* unless a kick failed or a command of the user's logins was lost (LoginHandler,
\* NotifyKickUser, DealExceptionSession).
THEOREM NeverTwoValid == ASSUME ~MayTimeout PROVE Spec => []OneValid
<1>1. Init => OneValid
  BY DEF Init, OneValid, Valid
<1>2. Init => Presence
  BY InitTyped, InitHere, InitLockHeld, InitPresence DEF Presence
<1> QED
  BY <1>1, <1>2, OneValidStep, PresenceStep, PTL DEF Spec

\* One login at a time, while the lock is granted and not outlasted: outside the
\* user's section, a connection a server still accepts requests from and knows as
\* the user's is the one Redis names, with its server, unless a kick failed or a
\* command of the user's logins was lost (LoginHandler, NotifyKickUser,
\* DealExceptionSession).
THEOREM OneLoginAtATime == ASSUME ~MayTimeout PROVE Spec => []ValidIsCurrent
<1>1. Presence => ValidIsCurrent
  <2> SUFFICES ASSUME Presence, NEW u \in Users, NEW v \in Servers, Quiet(u), ~kickFailed,
                      LoggedIn(u), Valid(v, u)
               PROVE  usession[u] = userMgr[v][u] /\ uip[u] = v
    BY DEF ValidIsCurrent, Valid, LoggedIn
  <2>1. ASSUME NEW t \in Dealers, deal[t].pc \in InDeal, deal[t].u = u PROVE FALSE
    BY <2>1, NullAssumption, ThreadNames DEF Presence, LockHeld, Quiet
  <2> QED
    BY <2>1 DEF Presence, Current, Clears, InDeal
<1> QED
  BY <1>1, PresenceHolds, PTL

\* The two keys of a user are written and deleted together, while the lock is granted
\* and not outlasted: outside the section both are absent, or they name a connection
\* and its server, unless a server has restarted or a SET or DEL of the user was lost.
THEOREM KeysPaired == ASSUME ~MayTimeout PROVE Spec => []PresencePaired
<1>1. Presence => PresencePaired
  <2> SUFFICES ASSUME Presence, NEW u \in Users, Quiet(u), crashes = 0, WritesDone(u)
               PROVE  Fit(u)
    BY DEF PresencePaired, Fit, WritesDone
  <2>1. ASSUME NEW t \in Dealers, deal[t].pc = "delIp", deal[t].u = u PROVE FALSE
    BY <2>1, NullAssumption, ThreadNames DEF Presence, LockHeld, InDeal, Quiet
  <2>2. ASSUME NEW v \in Servers, login[v].pc = "setSession", LoginUser(v) = u PROVE FALSE
    BY <2>2, NullAssumption, ThreadNames DEF Presence, LockHeld, InLogin, Quiet
  <2> QED
    BY <2>1, <2>2 DEF Presence, Paired
<1> QED
  BY <1>1, PresenceHolds, PTL

\* A connection that ends leaves a newer login's entry alone, while the lock is granted
\* and not outlasted and whatever else fails: the session in Redis is deleted only by
\* the clean-up of that very session.
THEOREM NewerKept == ASSUME ~MayTimeout PROVE Spec => NewerLoginKept
<1> DEFINE Kept == \A u \in Users : usession[u] # NoSession /\ usession'[u] = NoSession =>
                     \E t \in Dealers : deal[t].pc = "delSession" /\ deal[t].s = usession[u]
<1>1. ASSUME Presence, Next PROVE Kept
  <2> SUFFICES ASSUME NEW u \in Users, usession[u] # NoSession, usession'[u] = NoSession
               PROVE  \E t \in Dealers : deal[t].pc = "delSession" /\ deal[t].s = usession[u]
    OBVIOUS
  <2>1. CASE CalmStep
    BY <1>1, <2>1, CalmKeeps DEF Presence, Typed
  <2>2. ASSUME NEW t \in Dealers, Deal(t)
        PROVE  \E r \in Dealers : deal[r].pc = "delSession" /\ deal[r].s = usession[u]
    <3>1. CASE DealDelSession(t)
      <4>1. deal[t].pc = "delSession" /\ usession' = [usession EXCEPT ![deal[t].u] = NoSession]
        BY <3>1 DEF DealDelSession, DelSession
      <4>2. deal[t].u = u
        BY <1>1, <4>1 DEF Presence, Typed, TypeOK
      <4> QED
        BY <1>1, <4>1, <4>2 DEF Presence, DealStage
    <3>2. CASE usession' = usession
      BY <3>2
    <3> QED
      BY <2>2, <3>1, <3>2 DEF Deal, DealLock, DealCheck, DealDelIp, DealClear, DealRelease, redis
  <2>3. ASSUME NEW v \in Servers, LoginHandler(v) PROVE FALSE
    <3>1. Asking(v) \in Sessions /\ LoginUser(v) \in Users
      BY <1>1, <2>3, LoginSteps DEF Presence
    <3>2. CASE LoginSetSession(v)
      <4>1. usession' = usession \/ usession' = [usession EXCEPT ![LoginUser(v)] = Asking(v)]
        BY <3>2 DEF LoginSetSession, SetSession
      <4> QED
        BY <1>1, <3>1, <4>1, NullAssumption DEF Presence, Typed, TypeOK
    <3> QED
      BY <2>3, <3>2, LoginChanges
  <2>4. CASE \/ \E v \in Servers : CrashRestart(v)
             \/ \E k \in kicks : NotifyKickUser(k) \/ KickLost(k)
             \/ \E x \in Users : LockExpires(x)
    BY <2>4 DEF CrashRestart, NotifyKickUser, KickLost, LockExpires, redis
  <2> QED
    BY <1>1, <2>1, <2>2, <2>3, <2>4, StepKinds
<1>2. Presence /\ [Next]_vars => [Kept]_vars
  BY <1>1
<1> QED
  BY <1>2, PresenceHolds, PTL DEF Spec, NewerLoginKept

-----------------------------------------------------------------------------
(* The login protocol implements SingleLogin, as long as its kicks and its *)
(* commands to Redis succeed: LoginHandler looks at no result of theirs    *)

\* The connection of u that some server knows as the user's and accepts requests from.
Online == [u \in Users |-> IF NoneValid(u) THEN NoSession
                           ELSE LET v == CHOOSE v \in Servers : Valid(v, u) IN userMgr[v][u]]

SignOn == INSTANCE SingleLogin WITH online <- Online

\* That choice is the only one: Online is the valid connection wherever there is one.
OnlineKnown ==
  \A u \in Users : /\ NoneValid(u) => Online[u] = NoSession
                   /\ \A v \in Servers : Valid(v, u) => Online[u] = userMgr[v][u]

\* No kick has failed, and no command of a login was lost.
NoneFailed == kickFailed = FALSE /\ \A u \in Users : LoggedIn(u)

LEMMA OnlineIs == OneValid /\ NoneFailed => OnlineKnown
<1> SUFFICES ASSUME OneValid, NoneFailed, NEW u \in Users
             PROVE  /\ NoneValid(u) => Online[u] = NoSession
                    /\ \A v \in Servers : Valid(v, u) => Online[u] = userMgr[v][u]
  BY DEF OnlineKnown
<1>1. ASSUME NEW v \in Servers, Valid(v, u) PROVE Online[u] = userMgr[v][u]
  <2>1. \A w \in Servers : Valid(w, u) => w = v
    BY <1>1 DEF OneValid, NoneFailed
  <2>2. (CHOOSE w \in Servers : Valid(w, u)) = v
    BY <1>1, <2>1
  <2> QED
    BY <1>1, <2>2 DEF Online, NoneValid
<1> QED
  BY <1>1 DEF Online

\* What a step is to SingleLogin: the last write of a login, or somebody leaves.
LEMMA SignOnStep ==
  ASSUME Presence, OnlineKnown, OnlineKnown', NoneFailed, NoneFailed', Next
  PROVE  SignOn!Next
<1>0. /\ Typed /\ Here /\ KickStage /\ ~kickFailed /\ ~kickFailed'
      /\ userMgr \in [Servers -> [Users -> Sessions \cup {NoSession}]]
  BY DEF Presence, Typed, TypeOK, NoneFailed
<1>7. \A u \in Users : LoggedIn(u)
  BY DEF NoneFailed
<1>1. \A u \in Users : /\ NoneValid(u) => Online[u] = NoSession
                       /\ \A v \in Servers : Valid(v, u) => Online[u] = userMgr[v][u]
  BY DEF OnlineKnown
<1>2. \A u \in Users : /\ NoneValid(u)' => Online'[u] = NoSession
                       /\ \A v \in Servers : Valid(v, u)' => Online'[u] = userMgr'[v][u]
  BY DEF OnlineKnown
<1>3. /\ Online = [u \in Users |-> Online[u]] /\ Online' = [u \in Users |-> Online'[u]]
  BY DEF Online
<1>4. CASE \A v \in Servers, u \in Users : Valid(v, u)' => Valid(v, u) /\ userMgr'[v][u] = userMgr[v][u]
  <2> DEFINE Gone == {u \in Users : NoneValid(u)'}
  <2>1. \A u \in Users : Online'[u] = IF u \in Gone THEN NoSession ELSE Online[u]
    BY <1>1, <1>2, <1>4 DEF NoneValid
  <2>2. SignOn!Leave(Gone)
    BY <1>3, <2>1 DEF SignOn!Leave
  <2>3. Gone \in SUBSET Users
    OBVIOUS
  <2> QED
    BY <2>2, <2>3 DEF SignOn!Next
<1>6. \A x \in Servers : LoginSetMgr(x) => LoginUser(x) \in Users
  BY <1>0, LoginSteps DEF LoginSetMgr, LoginAt, LoginHandler
<1>5. ASSUME NEW x \in Servers, NEW u \in Users, u = LoginUser(x), LoginSetMgr(x)
      PROVE  SignOn!Next
  <2>1. /\ login[x].pc = "setMgr" /\ sessions' = sessions
        /\ userMgr' = [userMgr EXCEPT ![x][u] = Asking(x)]
        /\ Asking(x) \in Sessions
    BY <1>0, <1>5, LoginSteps DEF LoginSetMgr, LoginAt, LoginHandler
  <2>2. NoneValid(u)
    BY <1>0, <1>5, <1>6, <1>7, <2>1 DEF KickStage, Kicked
  <2>3. \A w \in Users : w # u =>
          \A y \in Servers : userMgr'[y][w] = userMgr[y][w] /\ (Valid(y, w)' <=> Valid(y, w))
    BY <1>0, <2>1 DEF Valid
  <2>4. \A w \in Users : w # u => Online'[w] = Online[w]
    BY <1>1, <1>2, <2>3 DEF NoneValid
  <2>5. Online[u] = NoSession
    BY <1>1, <2>2
  <2>6. CASE Valid(x, u)'
    <3>1. Online'[u] = Asking(x)
      BY <1>0, <1>2, <2>1, <2>6
    <3>2. SignOn!Enter(u, Asking(x))
      BY <1>3, <2>4, <2>5, <3>1 DEF SignOn!Enter
    <3> QED
      BY <2>1, <3>2 DEF SignOn!Next
  <2>7. CASE ~Valid(x, u)'
    <3>1. \A y \in Servers : y # x => userMgr'[y] = userMgr[y]
      BY <1>0, <2>1
    <3>2. NoneValid(u)'
      BY <2>1, <2>2, <2>7, <3>1 DEF NoneValid, Valid
    <3>3. Online'[u] = NoSession
      BY <1>2, <3>2
    <3>4. SignOn!Leave({})
      BY <1>3, <2>4, <2>5, <3>3 DEF SignOn!Leave
    <3> QED
      BY <3>4 DEF SignOn!Next
  <2> QED
    BY <2>6, <2>7
<1> QED
  BY <1>0, <1>4, <1>5, <1>6, ValidShrinks

\* The servers together implement SingleLogin in every behaviour in which no kick fails
\* and no GET or SET of a login is lost, also across restarts and whatever the clean-ups
\* lose: a user has one accepted connection or none, and a login comes after the end of
\* the one before.
THEOREM Implementation == ASSUME ~MayTimeout PROVE Spec /\ []NoneFailed => SignOn!Spec
<1>1. Init => Presence /\ OneValid
  BY InitTyped, InitHere, InitLockHeld, InitPresence DEF Init, Presence, OneValid, Valid
<1>2. Init => SignOn!Init
  <2> SUFFICES ASSUME Init PROVE SignOn!Init
    OBVIOUS
  <2>1. \A u \in Users : NoneValid(u)
    BY DEF Init, NoneValid, Valid
  <2> QED
    BY <2>1 DEF SignOn!Init, Online
<1>3. Presence /\ OneValid /\ [Next]_vars => (Presence /\ OneValid)'
  BY PresenceStep, OneValidStep
<1>4. /\ Presence /\ OnlineKnown /\ NoneFailed
      /\ (OnlineKnown /\ NoneFailed)' /\ [Next]_vars
      => [SignOn!Next]_Online
  <2>1. UNCHANGED vars => UNCHANGED Online
    BY DEF Online, NoneValid, Valid, vars, server
  <2> QED
    BY <2>1, SignOnStep
<1>5. OneValid /\ NoneFailed => OnlineKnown
  BY OnlineIs
<1> QED
  BY <1>1, <1>2, <1>3, <1>4, <1>5, PTL DEF Spec, SignOn!Spec

-----------------------------------------------------------------------------
(* What can change what, as long as no server restarts                     *)

Alive == Next /\ crashes' = crashes

LEMMA AliveKinds ==
  ASSUME Typed, Alive
  PROVE  \/ CalmStep
         \/ \E t \in Dealers : Deal(t)
         \/ \E v \in Servers : LoginHandler(v)
         \/ \E k \in kicks : NotifyKickUser(k) \/ KickLost(k)
         \/ \E u \in Users : LockExpires(u)
<1>1. \A v \in Servers : ~CrashRestart(v)
  BY DEF Alive, CrashRestart, Typed, TypeOK
<1> QED
  BY <1>1, StepKinds DEF Alive

\* The login handler of v has moved, or its request stays where it is.
LEMMA WorkerMoves ==
  ASSUME Typed, Alive, NEW v \in Servers, login[v].pc # "idle", ~LoginHandler(v)
  PROVE  login'[v] = login[v] /\ logicQ'[v] = logicQ[v]
<1>1. CASE CalmStep
  BY <1>1, CalmKeeps DEF Typed
<1>2. CASE \E t \in Dealers : Deal(t)
  BY <1>2, DealSteps
<1>3. CASE \E w \in Servers : LoginHandler(w)
  BY <1>3, LoginSteps
<1>4. CASE (\E k \in kicks : NotifyKickUser(k) \/ KickLost(k)) \/ \E u \in Users : LockExpires(u)
  BY <1>4 DEF NotifyKickUser, KickLost, LockExpires, server
<1> QED
  BY <1>1, <1>2, <1>3, <1>4, AliveKinds

\* A client sends a request only while its connection is open and being read.
LEMMA SentChanges ==
  ASSUME Typed, Alive, NEW s \in Sessions
  PROVE  \/ sent'[s] = sent[s]
         \/ /\ sent'[s] = sent[s] + 1 /\ sock[s] = "up" /\ reading[s]
            /\ ReadTooLong(s) \/ \E u \in Users \cup {NoUser} : ReadRequest(s, u)
<1> DEFINE Changed ==
      \/ sent'[s] = sent[s]
      \/ /\ sent'[s] = sent[s] + 1 /\ sock[s] = "up" /\ reading[s]
         /\ ReadTooLong(s) \/ \E u \in Users \cup {NoUser} : ReadRequest(s, u)
<1>0. sent \in [Sessions -> 0..MaxMsgs]
  BY DEF Typed, TypeOK
<1>1. CASE CalmStep
  <2>1. CASE sent' = sent
    BY <2>1
  <2>2. ASSUME NEW r \in Sessions, ReadTooLong(r) \/ \E u \in Users \cup {NoUser} : ReadRequest(r, u)
        PROVE  sent' = [sent EXCEPT ![r] = @ + 1] /\ sock[r] = "up" /\ reading[r]
    BY <2>2 DEF ReadTooLong, ReadRequest
  <2>3. ASSUME NEW r \in Sessions, ReadTooLong(r) \/ \E u \in Users \cup {NoUser} : ReadRequest(r, u)
        PROVE  Changed
    BY <1>0, <2>2, <2>3
  <2> QED
    BY <1>1, <2>1, <2>3
    DEF CalmStep, HandleAccept, TimerClose, TimerDeal, InsertSession, HandleOther, HandleUnknown, OnTimer, PeerGone,
        PostWaiting, ReadError, WriteDone, WriteError, LoginKeeps, connection
<1>2. CASE \E t \in Dealers : Deal(t)
  BY <1>2, DealSteps DEF connection
<1>3. CASE \E v \in Servers : LoginHandler(v)
  BY <1>3, LoginSteps
<1>4. CASE (\E k \in kicks : NotifyKickUser(k) \/ KickLost(k)) \/ \E u \in Users : LockExpires(u)
  BY <1>4 DEF NotifyKickUser, KickLost, LockExpires, connection
<1> QED
  BY <1>1, <1>2, <1>3, <1>4, AliveKinds

\* At most one request of s is in a queue.
OnceIn(q, s) == \A i, j \in DOMAIN q : q[i][1] = s /\ q[j][1] = s => i = j

LEMMA OnceTail ==
  ASSUME NEW q \in Seq(Requests), q # <<>>, NEW s, OnceIn(q, s)
  PROVE  OnceIn(Tail(q), s) /\ (Head(q)[1] = s => \A m \in Items(Tail(q)) : m[1] # s)
<1>1. /\ Tail(q) \in Seq(Requests) /\ Len(Tail(q)) = Len(q) - 1
      /\ \A i \in 1..Len(Tail(q)) : Tail(q)[i] = q[i + 1]
  BY HeadTailProperties
<1>2. /\ Len(q) \in Nat /\ DOMAIN q = 1..Len(q) /\ DOMAIN Tail(q) = 1..Len(Tail(q))
      /\ Len(q) > 0 /\ Head(q) = q[1]
  BY <1>1, LenProperties, EmptySeq
<1>3. \A i \in DOMAIN Tail(q) : i \in Nat /\ i + 1 \in DOMAIN q /\ i + 1 # 1 /\ Tail(q)[i] = q[i + 1]
  BY <1>1, <1>2
<1>4. OnceIn(Tail(q), s)
  BY <1>3 DEF OnceIn
<1>5. Head(q)[1] = s => \A m \in Items(Tail(q)) : m[1] # s
  BY <1>2, <1>3 DEF OnceIn, Items
<1> QED
  BY <1>4, <1>5

LEMMA OnceAppend ==
  ASSUME NEW q \in Seq(Requests), NEW m \in Requests, NEW s, OnceIn(q, s),
         m[1] = s => \A x \in Items(q) : x[1] # s
  PROVE  OnceIn(Append(q, m), s)
<1>1. /\ \A i \in 1..Len(q) : Append(q, m)[i] = q[i]
      /\ Append(q, m)[Len(q) + 1] = m /\ Len(q) \in Nat
      /\ DOMAIN Append(q, m) = 1..(Len(q) + 1) /\ DOMAIN q = 1..Len(q)
  BY AppendProperties, LenProperties
<1>2. \A i \in DOMAIN Append(q, m) : (i \in DOMAIN q /\ Append(q, m)[i] = q[i])
                                     \/ (i = Len(q) + 1 /\ Append(q, m)[i] = m)
  BY <1>1
<1> QED
  BY <1>2 DEF OnceIn, Items

\* A request of s that has not been answered yet.
Waits(s)   == \E v \in Servers : \E m \in Items(logicQ[v]) : m[1] = s
Posts(s)   == \E m \in posting : m[1] = s
Pending(s) == Waits(s) \/ Posts(s)

\* A connection that has sent one request has it in one place.
OneRequest == \A s \in Sessions :
  /\ sent[s] = 0 => ~Pending(s)
  /\ sent[s] = 1 => /\ \A v \in Servers : OnceIn(logicQ[v], s)
                    /\ \A m, n \in posting : m[1] = s /\ n[1] = s => m = n
                    /\ ~(Waits(s) /\ Posts(s))

\* How queues change: a request comes in, waits no longer for the mutex, or is
\* answered.
Pops(v)    == /\ logicQ[v] # <<>> /\ logicQ' = [logicQ EXCEPT ![v] = Tail(@)]
              /\ UNCHANGED <<posting, sent>>
LEMMA QueueChanges ==
  ASSUME Typed, Alive
  PROVE  \/ UNCHANGED <<logicQ, posting>>
         \/ \E s \in Sessions : PostWaiting(s) \/ \E u \in Users \cup {NoUser} : ReadRequest(s, u)
         \/ \E v \in Servers : Pops(v) /\ (HandleOther(v) \/ HandleUnknown(v) \/ LoginReply(v))
<1>1. CASE CalmStep
  <2>1. ASSUME NEW v \in Servers, HandleOther(v) \/ HandleUnknown(v) PROVE Pops(v)
    BY <2>1 DEF HandleOther, HandleUnknown, LoginAt, Answer, LoginKeeps, Pops
  <2> QED
    BY <1>1, <2>1
    DEF CalmStep, HandleAccept, TimerClose, TimerDeal, InsertSession, OnTimer, PeerGone, ReadTooLong, ReadError,
        WriteDone, WriteError, server
<1>2. CASE \E t \in Dealers : Deal(t)
  BY <1>2, DealSteps
<1>3. ASSUME NEW v \in Servers, LoginHandler(v)
      PROVE  UNCHANGED <<logicQ, posting>> \/ (Pops(v) /\ LoginReply(v))
  <2>1. LoginReply(v) => Pops(v)
    BY DEF LoginReply, LoginAt, Answer, LoginKeeps, Pops
  <2>2. ~LoginReply(v) => UNCHANGED <<logicQ, posting>>
    BY <1>3 DEF LoginHandler, LoginLock, LoginGetIp, LoginKickHere, LoginKickThere, LoginKicked,
           LoginSetIp, LoginSetSession, LoginSetMgr, LoginRelease, LoginKeeps
  <2> QED
    BY <2>1, <2>2
<1>4. CASE (\E k \in kicks : NotifyKickUser(k) \/ KickLost(k)) \/ \E u \in Users : LockExpires(u)
  BY <1>4 DEF NotifyKickUser, KickLost, LockExpires, server
<1> QED
  BY <1>1, <1>2, <1>3, <1>4, AliveKinds

\* What PostMsgToQue and PostWaiting do, for a server of theirs.
LEMMA PostChanges ==
  ASSUME Typed, Here, NEW s \in Sessions
  PROVE  /\ \A u \in Users \cup {NoUser} : ReadRequest(s, u) =>
              /\ srv[s] \in Servers /\ <<s, u>> \in Requests
              /\ sent' = [sent EXCEPT ![s] = @ + 1]
              /\ \/ logicQ' = [logicQ EXCEPT ![srv[s]] = Append(@, <<s, u>>)] /\ posting' = posting
                 \/ logicQ' = logicQ /\ posting' = posting \cup {<<s, u>>}
                 \/ UNCHANGED <<logicQ, posting>>
         /\ PostWaiting(s) =>
              \E m \in posting : /\ m[1] = s /\ srv[s] \in Servers /\ m \in Requests /\ sent' = sent
                                 /\ logicQ' = [logicQ EXCEPT ![srv[s]] = Append(@, m)]
                                 /\ posting' = posting \ {m}
<1>1. ASSUME NEW u \in Users \cup {NoUser}, ReadRequest(s, u)
      PROVE  /\ srv[s] \in Servers /\ <<s, u>> \in Requests
             /\ sent' = [sent EXCEPT ![s] = @ + 1]
             /\ \/ logicQ' = [logicQ EXCEPT ![srv[s]] = Append(@, <<s, u>>)] /\ posting' = posting
                \/ logicQ' = logicQ /\ posting' = posting \cup {<<s, u>>}
                \/ UNCHANGED <<logicQ, posting>>
  <2>1. srv[s] \in Servers
    BY <1>1 DEF ReadRequest, Here, Placed, Typed, TypeOK
  <2> QED
    BY <1>1, <2>1 DEF ReadRequest, PostMsgToQue, Requests
<1>2. ASSUME PostWaiting(s)
      PROVE  \E m \in posting : /\ m[1] = s /\ srv[s] \in Servers /\ m \in Requests /\ sent' = sent
                                /\ logicQ' = [logicQ EXCEPT ![srv[s]] = Append(@, m)]
                                /\ posting' = posting \ {m}
  <2>1. PICK m \in posting : /\ m[1] = s /\ logicQ' = [logicQ EXCEPT ![srv[s]] = Append(@, m)]
                             /\ posting' = posting \ {m}
    BY <1>2 DEF PostWaiting
  <2>2. srv[s] \in Servers /\ m \in Requests /\ sent' = sent
    BY <1>2, <2>1 DEF PostWaiting, connection, Here, InQueues, Typed, TypeOK, Requests
  <2> QED
    BY <2>1, <2>2
<1> QED
  BY <1>1, <1>2

\* A request is pending from the moment it is read.
LEMMA PendingChanges ==
  ASSUME Typed, Here, Alive, NEW s \in Sessions, Pending(s)'
  PROVE  Pending(s) \/ \E u \in Users \cup {NoUser} : ReadRequest(s, u)
<1>0. logicQ \in [Servers -> Seq(Requests)]
  BY DEF Typed, TypeOK, Requests
<1>1. CASE UNCHANGED <<logicQ, posting>>
  BY <1>1 DEF Pending, Waits, Posts
<1>2. ASSUME NEW v \in Servers, Pops(v) PROVE Pending(s)
  <2>1. \A w \in Servers : Items(logicQ'[w]) \subseteq Items(logicQ[w])
    BY <1>0, <1>2, QueuePop DEF Pops
  <2> QED
    BY <1>2, <2>1 DEF Pops, Pending, Waits, Posts
<1>3. ASSUME NEW r \in Sessions, PostWaiting(r) PROVE Pending(s)
  <2>1. PICK m \in posting : /\ m[1] = r /\ srv[r] \in Servers /\ m \in Requests
                             /\ logicQ' = [logicQ EXCEPT ![srv[r]] = Append(@, m)]
                             /\ posting' = posting \ {m}
    BY <1>3, PostChanges
  <2>2. \A w \in Servers : Items(logicQ'[w]) \subseteq Items(logicQ[w]) \cup {m}
    BY <1>0, <2>1, QueueAppend
  <2> QED
    BY <2>1, <2>2 DEF Pending, Waits, Posts
<1>4. ASSUME NEW r \in Sessions, NEW u \in Users \cup {NoUser}, ReadRequest(r, u), r # s PROVE Pending(s)
  <2>0. /\ srv[r] \in Servers /\ <<r, u>> \in Requests
        /\ \/ logicQ' = [logicQ EXCEPT ![srv[r]] = Append(@, <<r, u>>)] /\ posting' = posting
           \/ logicQ' = logicQ /\ posting' = posting \cup {<<r, u>>}
           \/ UNCHANGED <<logicQ, posting>>
    BY <1>4, PostChanges
  <2>1. \A w \in Servers : Items(logicQ'[w]) \subseteq Items(logicQ[w]) \cup {<<r, u>>}
    BY <1>0, <2>0, QueueAppend
  <2>2. posting' \subseteq posting \cup {<<r, u>>}
    BY <2>0
  <2> QED
    BY <1>4, <2>1, <2>2 DEF Pending, Waits, Posts
<1> QED
  BY <1>1, <1>2, <1>3, <1>4, QueueChanges

LEMMA OneRequestStep ==
  ASSUME Typed, Here, OneRequest, Alive
  PROVE  OneRequest'
<1>0. /\ logicQ \in [Servers -> Seq(Requests)] /\ sent \in [Sessions -> 0..MaxMsgs]
      /\ posting \subseteq Requests
  BY DEF Typed, TypeOK, Requests
<1> SUFFICES ASSUME NEW s \in Sessions
             PROVE  /\ sent'[s] = 0 => ~Pending(s)'
                    /\ sent'[s] = 1 => /\ \A v \in Servers : OnceIn(logicQ'[v], s)
                                       /\ \A m, n \in posting' : m[1] = s /\ n[1] = s => m = n
                                       /\ ~(Waits(s) /\ Posts(s))'
  BY DEF OneRequest
<1>1. sent[s] \in Nat /\ (sent'[s] = sent[s] \/ sent'[s] = sent[s] + 1)
  BY <1>0, SentChanges
<1>2. sent'[s] = 0 => ~Pending(s)'
  <2>1. \A u \in Users \cup {NoUser} : ReadRequest(s, u) => sent'[s] = sent[s] + 1
    BY <1>0 DEF ReadRequest
  <2> QED
    BY <1>1, <2>1, PendingChanges DEF OneRequest
<1>3. ASSUME sent'[s] = 1
      PROVE  /\ \A v \in Servers : OnceIn(logicQ'[v], s)
             /\ \A m, n \in posting' : m[1] = s /\ n[1] = s => m = n
             /\ ~(Waits(s) /\ Posts(s))'
  <2>0. /\ \A v \in Servers : OnceIn(logicQ[v], s)
        /\ \A m, n \in posting : m[1] = s /\ n[1] = s => m = n
        /\ ~(Waits(s) /\ Posts(s))
    <3>1. CASE sent[s] = 1
      BY <3>1 DEF OneRequest
    <3>2. CASE sent[s] = 0
      BY <3>2 DEF OneRequest, Pending, Waits, Posts, OnceIn, Items
    <3> QED
      BY <1>1, <1>3, <3>1, <3>2
  <2>1. CASE UNCHANGED <<logicQ, posting>>
    BY <2>0, <2>1 DEF Waits, Posts
  <2>2. ASSUME NEW v \in Servers, Pops(v)
        PROVE  /\ \A w \in Servers : OnceIn(logicQ'[w], s)
               /\ \A m, n \in posting' : m[1] = s /\ n[1] = s => m = n
               /\ ~(Waits(s) /\ Posts(s))'
    <3>1. \A w \in Servers : OnceIn(logicQ'[w], s) /\ Items(logicQ'[w]) \subseteq Items(logicQ[w])
      BY <1>0, <2>0, <2>2, OnceTail, QueuePop DEF Pops
    <3> QED
      BY <2>0, <2>2, <3>1 DEF Pops, Waits, Posts
  <2>3. ASSUME NEW r \in Sessions, PostWaiting(r)
        PROVE  /\ \A w \in Servers : OnceIn(logicQ'[w], s)
               /\ \A m, n \in posting' : m[1] = s /\ n[1] = s => m = n
               /\ ~(Waits(s) /\ Posts(s))'
    <3>1. PICK m \in posting : /\ m[1] = r /\ srv[r] \in Servers /\ m \in Requests
                               /\ logicQ' = [logicQ EXCEPT ![srv[r]] = Append(@, m)]
                               /\ posting' = posting \ {m}
      BY <2>3, PostChanges
    <3>2. m[1] = s => \A w \in Servers : \A x \in Items(logicQ[w]) : x[1] # s
      BY <2>0, <3>1 DEF Waits, Posts
    <3>3. \A w \in Servers : OnceIn(logicQ'[w], s) /\ Items(logicQ'[w]) \subseteq Items(logicQ[w]) \cup {m}
      BY <1>0, <2>0, <3>1, <3>2, OnceAppend, QueueAppend
    <3>4. ~(Waits(s) /\ Posts(s))'
      <4>1. CASE m[1] = s
        <5>1. ~Posts(s)'
          BY <2>0, <3>1, <4>1 DEF Posts
        <5> QED
          BY <5>1
      <4>2. CASE m[1] # s
        BY <2>0, <3>1, <3>3, <4>2 DEF Waits, Posts
      <4> QED
        BY <4>1, <4>2
    <3> QED
      BY <2>0, <3>1, <3>3, <3>4
  <2>4. ASSUME NEW r \in Sessions, NEW u \in Users \cup {NoUser}, ReadRequest(r, u)
        PROVE  /\ \A w \in Servers : OnceIn(logicQ'[w], s)
               /\ \A m, n \in posting' : m[1] = s /\ n[1] = s => m = n
               /\ ~(Waits(s) /\ Posts(s))'
    <3>1. r = s => ~Pending(s)
      <4>1. r = s => sent'[s] = sent[s] + 1
        BY <1>0, <2>4 DEF ReadRequest
      <4>2. r = s => sent[s] = 0
        BY <1>1, <1>3, <4>1
      <4> QED
        BY <4>2 DEF OneRequest
    <3>2. /\ srv[r] \in Servers /\ <<r, u>> \in Requests
          /\ \/ logicQ' = [logicQ EXCEPT ![srv[r]] = Append(@, <<r, u>>)] /\ posting' = posting
             \/ logicQ' = logicQ /\ posting' = posting \cup {<<r, u>>}
             \/ UNCHANGED <<logicQ, posting>>
      BY <2>4, PostChanges
    <3>3. CASE logicQ' = [logicQ EXCEPT ![srv[r]] = Append(@, <<r, u>>)] /\ posting' = posting
      <4>1. <<r, u>>[1] = s => \A w \in Servers : \A x \in Items(logicQ[w]) : x[1] # s
        BY <3>1 DEF Pending, Waits
      <4>2. \A w \in Servers : OnceIn(logicQ'[w], s)
                                     /\ Items(logicQ'[w]) \subseteq Items(logicQ[w]) \cup {<<r, u>>}
        BY <1>0, <2>0, <3>2, <3>3, <4>1, OnceAppend, QueueAppend
      <4>3. ~(Waits(s) /\ Posts(s))'
        <5>1. CASE r = s
          BY <3>1, <3>3, <5>1 DEF Pending, Posts
        <5>2. CASE r # s
          BY <2>0, <3>3, <4>2, <5>2 DEF Waits, Posts
        <5> QED
          BY <5>1, <5>2
      <4> QED
        BY <2>0, <3>3, <4>2, <4>3
    <3>4. CASE logicQ' = logicQ /\ posting' = posting \cup {<<r, u>>}
      BY <2>0, <3>1, <3>4 DEF Pending, Waits, Posts
    <3> QED
      BY <2>1, <3>2, <3>3, <3>4
  <2> QED
    BY <2>1, <2>2, <2>3, <2>4, QueueChanges
<1> QED
  BY <1>2, <1>3

\* When the only request of a connection is answered, it has none left.
LEMMA AnsweredOnce ==
  ASSUME Typed, Here, OneRequest, NEW v \in Servers, Pops(v), NEW s, s = Asking(v), sent[s] = 1
  PROVE  ~Pending(s)'
<1>0. logicQ \in [Servers -> Seq(Requests)] /\ logicQ[v] # <<>>
  BY DEF Typed, TypeOK, Requests, Pops
<1>1. s \in Sessions /\ Head(logicQ[v]) \in Items(logicQ[v]) /\ srv[s] = v
  BY <1>0, QueuePop DEF Asking, Here, InQueues, Requests
<1>2. OnceIn(logicQ[v], s) /\ ~Posts(s)
  <2>1. Waits(s)
    BY <1>1 DEF Waits, Asking
  <2> QED
    BY <1>1, <2>1 DEF OneRequest
<1>3. \A m \in Items(Tail(logicQ[v])) : m[1] # s
  BY <1>0, <1>2, OnceTail DEF Asking
<1>4. \A w \in Servers : \A m \in Items(logicQ'[w]) : m[1] # s
  BY <1>0, <1>1, <1>3 DEF Pops, Here, InQueues
<1> QED
  BY <1>2, <1>4 DEF Pending, Waits, Posts, Pops

\* The session Redis names for a user, or UserMgr has, is entered by a login only.
LEMMA UsessionChanges ==
  ASSUME Typed, Alive, NEW u \in Users, usession'[u] # NoSession, usession'[u] # usession[u]
  PROVE  \E v \in Servers : LoginSetSession(v) /\ LoginUser(v) = u /\ usession'[u] = Asking(v)
<1>0. usession \in [Users -> Sessions \cup {NoSession}]
  BY DEF Typed, TypeOK
<1>1. CASE CalmStep
  BY <1>1, CalmKeeps DEF Typed
<1>2. CASE \E t \in Dealers : Deal(t)
  BY <1>0, <1>2, DealSteps
<1>3. ASSUME NEW v \in Servers, LoginHandler(v)
      PROVE  LoginSetSession(v) /\ LoginUser(v) = u /\ usession'[u] = Asking(v)
  <2>1. LoginSetSession(v) /\ usession' = [usession EXCEPT ![LoginUser(v)] = Asking(v)]
    BY <1>3, LoginChanges DEF LoginSetSession, SetSession
  <2> QED
    BY <1>0, <2>1
<1>4. CASE (\E k \in kicks : NotifyKickUser(k) \/ KickLost(k)) \/ \E x \in Users : LockExpires(x)
  BY <1>4 DEF NotifyKickUser, KickLost, LockExpires, redis
<1> QED
  BY <1>1, <1>2, <1>3, <1>4, AliveKinds

LEMMA MgrChanges ==
  ASSUME Typed, Alive, NEW w \in Servers, NEW u \in Users, userMgr'[w][u] # userMgr[w][u]
  PROVE  LoginSetMgr(w) /\ LoginUser(w) = u /\ userMgr'[w][u] = Asking(w)
<1>0. userMgr \in [Servers -> [Users -> Sessions \cup {NoSession}]]
  BY DEF Typed, TypeOK
<1>1. CASE CalmStep
  BY <1>1, CalmKeeps DEF Typed
<1>2. CASE \E t \in Dealers : Deal(t)
  BY <1>2, DealSteps
<1>3. ASSUME NEW v \in Servers, LoginHandler(v)
      PROVE  LoginSetMgr(w) /\ LoginUser(w) = u /\ userMgr'[w][u] = Asking(w)
  <2>1. LoginSetMgr(v) /\ userMgr' = [userMgr EXCEPT ![v][LoginUser(v)] = Asking(v)]
    BY <1>3, LoginChanges DEF LoginSetMgr
  <2>2. v = w /\ LoginUser(v) = u
    BY <1>0, <2>1
  <2> QED
    BY <1>0, <2>1, <2>2
<1>4. CASE (\E k \in kicks : NotifyKickUser(k) \/ KickLost(k)) \/ \E x \in Users : LockExpires(x)
  BY <1>4 DEF NotifyKickUser, KickLost, LockExpires, server
<1> QED
  BY <1>1, <1>2, <1>3, <1>4, AliveKinds

\* The user of a connection is set by its login only, once it has been accepted.
LEMMA UserIdChanges ==
  ASSUME Typed, Alive, NEW s \in Sessions, userId'[s] # userId[s]
  PROVE  \/ sock[s] = "new"
         \/ \E v \in Servers : LoginSetIp(v) /\ Asking(v) = s
<1>0. userId \in [Sessions -> Users \cup {NoUser}]
  BY DEF Typed, TypeOK
<1>1. CASE CalmStep
  <2>1. ASSUME NEW v \in Servers, NEW r \in Sessions, HandleAccept(v, r) PROVE sock[s] = "new"
    BY <1>0, <2>1 DEF HandleAccept
  <2> QED
    BY <1>1, <2>1
    DEF CalmStep, TimerClose, TimerDeal, InsertSession, HandleOther, HandleUnknown, OnTimer, PeerGone,
        PostWaiting, ReadRequest, ReadTooLong, ReadError, WriteDone, WriteError, connection
<1>2. CASE \E t \in Dealers : Deal(t)
  BY <1>2, DealSteps DEF connection
<1>3. ASSUME NEW v \in Servers, LoginHandler(v) PROVE LoginSetIp(v) /\ Asking(v) = s
  BY <1>0, <1>3, LoginChanges DEF LoginSetIp
<1>4. CASE (\E k \in kicks : NotifyKickUser(k) \/ KickLost(k)) \/ \E x \in Users : LockExpires(x)
  BY <1>4 DEF NotifyKickUser, KickLost, LockExpires, connection
<1> QED
  BY <1>1, <1>2, <1>3, <1>4, AliveKinds

\* A clean-up under way has moved, or stays where it is.
LEMMA DealerMoves ==
  ASSUME Typed, Alive, NEW t \in Dealers, deal[t].pc # "no", ~Deal(t)
  PROVE  deal'[t] = deal[t]
<1>0. deal \in [Dealers -> DealStates]
  BY DEF Typed, TypeOK, DealStates, DealPlaces
<1>1. CASE CalmStep
  BY <1>1, CalmKeeps DEF Typed, Begins, NotDealing
<1>2. CASE \E r \in Dealers : Deal(r)
  BY <1>0, <1>2, DealSteps DEF DealGoesTo
<1>3. CASE \E v \in Servers : LoginHandler(v)
  BY <1>3, LoginSteps
<1>4. CASE (\E k \in kicks : NotifyKickUser(k) \/ KickLost(k)) \/ \E x \in Users : LockExpires(x)
  BY <1>4 DEF NotifyKickUser, KickLost, LockExpires, server
<1> QED
  BY <1>1, <1>2, <1>3, <1>4, AliveKinds

\* How a connection ends: the state of its socket, and whether it is being read.
LEMMA SocketChanges ==
  ASSUME Typed, Alive, NEW s \in Sessions
  PROVE  \/ sock'[s] = sock[s] /\ reading'[s] = reading[s]
         \/ sock[s] = "new" /\ sock'[s] = "up" /\ reading'[s]
         \/ sock[s] = "up" /\ sock'[s] = "gone" /\ reading'[s] = reading[s] /\ srv' = srv
         \/ /\ sock'[s] = "closed" /\ reading'[s] = reading[s]
            /\ \E v \in Servers : s \in expired'[v] /\ srv' = srv
         \/ \E u \in Users \cup {NoUser} : ReadRequest(s, u) /\ sock'[s] = "closed"
         \/ ReadTooLong(s) /\ sock'[s] = sock[s]
         \/ ReadError(s) \/ (WriteError(s) /\ reading'[s] = reading[s])
<1> DEFINE Changed ==
         \/ sock'[s] = sock[s] /\ reading'[s] = reading[s]
         \/ sock[s] = "new" /\ sock'[s] = "up" /\ reading'[s]
         \/ sock[s] = "up" /\ sock'[s] = "gone" /\ reading'[s] = reading[s] /\ srv' = srv
         \/ /\ sock'[s] = "closed" /\ reading'[s] = reading[s]
            /\ \E v \in Servers : s \in expired'[v] /\ srv' = srv
         \/ \E u \in Users \cup {NoUser} : ReadRequest(s, u) /\ sock'[s] = "closed"
         \/ ReadTooLong(s) /\ sock'[s] = sock[s]
         \/ ReadError(s) \/ (WriteError(s) /\ reading'[s] = reading[s])
<1>0. /\ sock \in [Sessions -> {"new", "up", "gone", "closed"}] /\ reading \in [Sessions -> BOOLEAN]
      /\ expired \in [Servers -> SUBSET Sessions]
  BY DEF Typed, TypeOK
<1>1. CASE CalmStep
  <2>1. ASSUME NEW v \in Servers, NEW r \in Sessions, HandleAccept(v, r) PROVE Changed
    BY <1>0, <2>1 DEF HandleAccept
  <2>2. ASSUME NEW v \in Servers, NEW r \in Sessions, TimerClose(v, r) PROVE Changed
    BY <1>0, <2>2 DEF TimerClose, server
  <2>3. ASSUME NEW r \in Sessions, PeerGone(r) PROVE Changed
    BY <1>0, <2>3 DEF PeerGone
  <2>4. ASSUME NEW r \in Sessions, NEW u \in Users \cup {NoUser}, ReadRequest(r, u) PROVE Changed
    BY <1>0, <2>4 DEF ReadRequest
  <2>5. ASSUME NEW r \in Sessions, ReadTooLong(r) PROVE Changed
    BY <1>0, <2>5 DEF ReadTooLong
  <2>6. ASSUME NEW r \in Sessions, ReadError(r) PROVE Changed
    BY <1>0, <2>6 DEF ReadError, CloseAndDeal
  <2>7. ASSUME NEW r \in Sessions, WriteError(r) PROVE Changed
    BY <1>0, <2>7 DEF WriteError, CloseAndDeal
  <2>8. CASE UNCHANGED <<sock, reading>>
    BY <2>8
  <2> QED
    BY <1>1, <2>1, <2>2, <2>3, <2>4, <2>5, <2>6, <2>7, <2>8
    DEF CalmStep, TimerDeal, InsertSession, HandleOther, HandleUnknown, LoginKeeps, PostWaiting,
        OnTimer, WriteDone, connection
<1>2. CASE \E t \in Dealers : Deal(t)
  BY <1>2, DealSteps DEF connection
<1>3. CASE \E v \in Servers : LoginHandler(v)
  BY <1>3, LoginSteps
<1>4. CASE (\E k \in kicks : NotifyKickUser(k) \/ KickLost(k)) \/ \E x \in Users : LockExpires(x)
  BY <1>4 DEF NotifyKickUser, KickLost, LockExpires, connection
<1> QED
  BY <1>1, <1>2, <1>3, <1>4, AliveKinds

\* A message to s: the answer to the request at the head of a queue, or the notice
\* to a session that UserMgr knows.
Sends(s) ==
  /\ SendTo(s) /\ UNCHANGED <<srv, sock, reading, sent, userMgr>>
  /\ \/ \E v \in Servers : Pops(v) /\ Asking(v) = s
     \/ \E v \in Servers, u \in Users : userMgr[v][u] = s

LEMMA SendChanges ==
  ASSUME Typed, Alive, NEW s \in Sessions
  PROVE  \/ queued'[s] = queued[s] /\ writing'[s] = writing[s]
         \/ Sends(s) \/ WriteDone(s) \/ (WriteError(s) /\ queued'[s] = queued[s])
<1> DEFINE Changed == \/ queued'[s] = queued[s] /\ writing'[s] = writing[s]
                      \/ Sends(s) \/ WriteDone(s) \/ (WriteError(s) /\ queued'[s] = queued[s])
<1>0. /\ queued \in [Sessions -> Nat] /\ writing \in [Sessions -> {"no", "started", "doomed"}]
      /\ userMgr \in [Servers -> [Users -> Sessions \cup {NoSession}]]
      /\ logicQ \in [Servers -> Seq(Requests)]
  BY DEF Typed, TypeOK, Requests
<1>1. ASSUME NEW r, SendTo(r), r # s PROVE Changed
  BY <1>0, <1>1 DEF SendTo
<1>2. ASSUME NEW v \in Servers, Answer(v), logicQ[v] # <<>>,
             UNCHANGED <<srv, sock, reading, sent, posting, userMgr>>
      PROVE  Changed
  BY <1>1, <1>2 DEF Answer, Sends, Pops
<1>3. ASSUME NEW v \in Servers, NEW u \in Users, Kick(v, u), UNCHANGED <<srv, sock, reading, sent, userMgr>>
      PROVE  Changed
  <2>1. CASE userMgr[v][u] = NoSession
    BY <1>3, <2>1 DEF Kick
  <2>2. CASE userMgr[v][u] # NoSession
    BY <1>1, <1>3, <2>2 DEF Kick, Sends
  <2> QED
    BY <2>1, <2>2
<1>4. CASE CalmStep
  <2>1. ASSUME NEW v \in Servers, HandleOther(v) PROVE Changed
    BY <1>2, <2>1 DEF HandleOther, LoginAt, LoginKeeps
  <2>2. ASSUME NEW r \in Sessions, WriteDone(r) PROVE Changed
    BY <1>0, <2>2 DEF WriteDone
  <2>3. ASSUME NEW r \in Sessions, WriteError(r) PROVE Changed
    BY <1>0, <2>3 DEF WriteError
  <2>4. CASE UNCHANGED <<queued, writing>>
    BY <2>4
  <2> QED
    BY <1>4, <2>1, <2>2, <2>3, <2>4
    DEF CalmStep, HandleAccept, TimerClose, TimerDeal, InsertSession, HandleUnknown, OnTimer, PeerGone,
        PostWaiting, ReadRequest, ReadTooLong, ReadError, connection
<1>5. CASE \E t \in Dealers : Deal(t)
  BY <1>5, DealSteps DEF connection
<1>6. ASSUME NEW v \in Servers, LoginHandler(v) PROVE Changed
  <2>1. CASE LoginKickHere(v)
    BY <1>3, <1>6, <2>1, LoginSteps DEF LoginKickHere, LoginKeeps
  <2>2. CASE LoginReply(v)
    BY <1>2, <2>2 DEF LoginReply, LoginAt, LoginKeeps
  <2> QED
    BY <1>6, <2>1, <2>2, LoginChanges
<1>7. ASSUME NEW k \in kicks, NotifyKickUser(k) PROVE Changed
  <2>1. k.to \in Servers /\ k.u \in Users
    BY DEF Typed, TypeOK
  <2> QED
    BY <1>3, <1>7, <2>1 DEF NotifyKickUser
<1>8. CASE (\E k \in kicks : KickLost(k)) \/ \E x \in Users : LockExpires(x)
  BY <1>8 DEF KickLost, LockExpires, connection
<1> QED
  BY <1>4, <1>5, <1>6, <1>7, <1>8, AliveKinds

\* How a connection leaves the table: by a request that is too long, by the clean-up,
\* or by the kick of a login.
LEMMA TableChanges ==
  ASSUME Typed, Here, Alive, NEW v \in Servers, NEW s \in Sessions, s \in sessions[v], s \notin sessions'[v]
  PROVE  \/ ReadTooLong(s) \/ sock[s] = "closed"
         \/ LoginKickHere(v) /\ userMgr[v][LoginUser(v)] = s
         \/ \E k \in kicks : NotifyKickUser(k) /\ userMgr[k.to][k.u] = s
<1>0. sessions \in [Servers -> SUBSET Sessions]
  BY DEF Typed, TypeOK
<1>1. CASE CalmStep
  <2>1. ASSUME NEW w \in Servers, InsertSession(w) PROVE FALSE
    BY <1>0, <2>1 DEF InsertSession
  <2>2. ASSUME NEW r \in Sessions, ReadTooLong(r) PROVE r = s
    BY <1>0, <2>2 DEF ReadTooLong, ClearSession
  <2> QED
    BY <1>1, <2>1, <2>2
    DEF CalmStep, HandleAccept, TimerClose, TimerDeal, HandleOther, HandleUnknown, OnTimer, PeerGone,
        PostWaiting, ReadRequest, ReadError, WriteDone, WriteError, server
<1>2. ASSUME NEW t \in Dealers, Deal(t) PROVE sock[s] = "closed"
  <2>1. ClearSession(srv[deal[t].s], deal[t].s)
    BY <1>2, DealSteps
  <2>2. deal[t].s = s
    BY <1>0, <2>1 DEF ClearSession
  <2>3. deal[t].pc # "no"
    BY <1>2 DEF Deal, DealLock, DealCheck, DealDelSession, DealDelIp, DealClear, DealRelease
  <2> QED
    BY <2>2, <2>3 DEF Here, InCleanUp
<1>3. ASSUME NEW w \in Servers, LoginHandler(w) PROVE LoginKickHere(v) /\ userMgr[v][LoginUser(v)] = s
  <2>1. LoginKickHere(w)
    BY <1>3, LoginChanges
  <2>2. sessions' = [sessions EXCEPT ![w] = @ \ {userMgr[w][LoginUser(w)]}]
    BY <2>1 DEF LoginKickHere, Kick, ClearSession
  <2>3. w = v /\ userMgr[w][LoginUser(w)] = s
    BY <1>0, <2>2
  <2> QED
    BY <2>1, <2>3
<1>4. ASSUME NEW k \in kicks, NotifyKickUser(k) PROVE userMgr[k.to][k.u] = s
  <2>1. sessions' = [sessions EXCEPT ![k.to] = @ \ {userMgr[k.to][k.u]}]
    BY <1>4 DEF NotifyKickUser, Kick, ClearSession
  <2> QED
    BY <1>0, <2>1
<1>5. CASE (\E k \in kicks : KickLost(k)) \/ \E x \in Users : LockExpires(x)
  BY <1>5 DEF KickLost, LockExpires, server
<1> QED
  BY <1>1, <1>2, <1>3, <1>4, <1>5, AliveKinds

\* How kicks change, and that their failures are never forgotten.
LEMMA KicksChange ==
  ASSUME Typed, Alive, NEW k \in kicks'
  PROVE  k \in kicks \/ \E v \in Servers : LoginKickThere(v) /\ k = KickOf(v)
<1>1. CASE CalmStep
  BY <1>1, CalmKeeps DEF Typed
<1>2. CASE \E t \in Dealers : Deal(t)
  BY <1>2, DealSteps DEF rpc
<1>3. ASSUME NEW v \in Servers, LoginHandler(v) PROVE k \in kicks \/ (LoginKickThere(v) /\ k = KickOf(v))
  BY <1>3, LoginChanges DEF LoginKickThere, KickOf
<1>4. CASE (\E x \in kicks : NotifyKickUser(x) \/ KickLost(x)) \/ \E x \in Users : LockExpires(x)
  BY <1>4 DEF NotifyKickUser, KickLost, LockExpires, rpc
<1> QED
  BY <1>1, <1>2, <1>3, <1>4, AliveKinds

LEMMA FailedStays == Typed /\ Alive /\ kickFailed => kickFailed'
<1> SUFFICES ASSUME Typed, Alive, kickFailed PROVE kickFailed'
  OBVIOUS
<1>1. CASE CalmStep
  BY <1>1, CalmKeeps DEF Typed
<1>2. CASE \E t \in Dealers : Deal(t)
  BY <1>2, DealSteps DEF rpc
<1>3. ASSUME NEW v \in Servers, LoginHandler(v) PROVE kickFailed'
  BY <1>3, LoginChanges DEF LoginKicked, KickFails
<1>4. CASE (\E x \in kicks : NotifyKickUser(x) \/ KickLost(x)) \/ \E x \in Users : LockExpires(x)
  BY <1>4 DEF NotifyKickUser, KickLost, KickFails, LockExpires, rpc
<1> QED
  BY <1>1, <1>2, <1>3, <1>4, AliveKinds

-----------------------------------------------------------------------------
(* What is known of a connection whose login is its only request, as long  *)
(* as no server restarts                                                   *)

Serves(v, s, u, pcs) == login[v].pc \in pcs /\ Asking(v) = s /\ LoginUser(v) = u
InMgr(s)   == \E v \in Servers, u \in Users : userMgr[v][u] = s
InTable(s) == s \in sessions[srv[s]] \/ sock[s] = "closed"

\* A connection recorded as the user's has sent its login; if nothing else, then it is
\* the user's, and until it is answered the login's handler is past that write.
Known(s, u, pcs) ==
  /\ sent[s] > 0
  /\ sent[s] = 1 => /\ userId[s] = u
                    /\ Pending(s) => \E v \in Servers : Serves(v, s, u, pcs)

InRedis == {"setMgr", "release", "reply"}
InUserMgr == {"release", "reply"}

KnownOnce == \A s \in Sessions, u \in Users :
  /\ usession[u] = s => Known(s, u, InRedis)
  /\ \A w \in Servers : userMgr[w][u] = s => Known(s, u, InUserMgr)

UserIdSet == \A v \in Servers :
  login[v].pc \in {"setSession", "setMgr", "release", "reply"} => userId[Asking(v)] = LoginUser(v)

\* A login is pending while its handler runs.
LEMMA AskingPends ==
  ASSUME Typed, Here, OneRequest, NEW v \in Servers, login[v].pc # "idle"
  PROVE  /\ Asking(v) \in Sessions /\ LoginUser(v) \in Users /\ logicQ[v] # <<>>
         /\ srv[Asking(v)] = v /\ sock[Asking(v)] # "new"
         /\ Pending(Asking(v)) /\ sent[Asking(v)] > 0
<1>1. logicQ[v] \in Seq(Requests) /\ logicQ[v] # <<>> /\ LoginUser(v) \in Users
  BY DEF Typed, Busy, TypeOK, Requests
<1>2. Head(logicQ[v]) \in Items(logicQ[v]) /\ Asking(v) \in Sessions
  BY <1>1, QueuePop DEF Asking
<1>3. srv[Asking(v)] = v /\ sock[Asking(v)] # "new"
  <2>1. srv[Asking(v)] = v
    BY <1>2 DEF Here, InQueues, Asking
  <2> QED
    BY <1>2, <2>1, NullAssumption DEF Here, Placed
<1>4. Pending(Asking(v))
  BY <1>2 DEF Pending, Waits, Asking
<1>5. sent[Asking(v)] \in Nat
  BY <1>2 DEF Typed, TypeOK
<1> QED
  BY <1>1, <1>2, <1>3, <1>4, <1>5 DEF OneRequest

\* A connection asks one handler at a time.
LEMMA OneAsks ==
  ASSUME Typed, Here, OneRequest, NEW v \in Servers, NEW w \in Servers,
         login[v].pc # "idle", login[w].pc # "idle", Asking(v) = Asking(w)
  PROVE  v = w
  BY AskingPends

LEMMA KnownKept ==
  ASSUME Typed, Here, OneRequest, Alive, NEW s \in Sessions, NEW u \in Users, sock[s] # "new",
         NEW pcs, pcs \in {InRedis, InUserMgr}, Known(s, u, pcs)
  PROVE  Known(s, u, pcs)'
<1>0. /\ sent \in [Sessions -> 0..MaxMsgs] /\ login \in [Servers -> LoginStates]
      /\ logicQ \in [Servers -> Seq(Requests)]
  BY DEF Typed, TypeOK, LoginStates, Requests
<1>1. sent[s] \in Nat /\ sent[s] > 0 /\ (sent'[s] = sent[s] \/ sent'[s] = sent[s] + 1)
  BY <1>0, SentChanges DEF Known
<1>2. SUFFICES ASSUME sent'[s] = 1
               PROVE  userId'[s] = u /\ (Pending(s)' => \E v \in Servers : Serves(v, s, u, pcs)')
  BY <1>1 DEF Known
<1>3. /\ sent[s] = 1 /\ sent'[s] = sent[s] /\ userId[s] = u
      /\ Pending(s) => \E v \in Servers : Serves(v, s, u, pcs)
  BY <1>1, <1>2 DEF Known
<1>4. userId'[s] = u
  <2>1. ASSUME NEW v \in Servers, LoginSetIp(v), Asking(v) = s PROVE FALSE
    <3>1. login[v].pc = "setIp"
      BY <2>1 DEF LoginSetIp, LoginAt
    <3>2. Pending(s)
      BY <2>1, <3>1, AskingPends
    <3>3. PICK w \in Servers : Serves(w, s, u, pcs)
      BY <1>3, <3>2
    <3>4. login[w].pc \in {"setMgr", "release", "reply"} /\ Asking(w) = Asking(v)
      BY <2>1, <3>3 DEF Serves, InRedis, InUserMgr
    <3> QED
      BY <3>1, <3>4, OneAsks
  <2> QED
    BY <1>3, <2>1, UserIdChanges
<1>5. ASSUME Pending(s)' PROVE \E v \in Servers : Serves(v, s, u, pcs)'
  <2>1. \A x \in Users \cup {NoUser} : ~ReadRequest(s, x)
    BY <1>0, <1>1, <1>3 DEF ReadRequest
  <2>2. PICK v \in Servers : Serves(v, s, u, pcs)
    BY <1>3, <1>5, <2>1, PendingChanges
  <2>3. login[v].pc \in {"setMgr", "release", "reply"} /\ login[v].pc \in pcs
    BY <2>2 DEF Serves, InRedis, InUserMgr
  <2>4. CASE LoginHandler(v)
    <3>1. CASE LoginSetMgr(v)
      <4>1. login[v].pc = "setMgr" /\ LoginGoesTo(v, "release") /\ logicQ' = logicQ
        BY <3>1 DEF LoginSetMgr, LoginAt
      <4> QED
        BY <2>2, <2>3, <4>1, LoginGoes DEF Typed, Serves, Asking, LoginUser, InRedis, InUserMgr
    <3>2. CASE LoginRelease(v)
      <4>1. LoginGoesTo(v, "reply") /\ logicQ' = logicQ
        BY <3>2 DEF LoginRelease
      <4> QED
        BY <2>2, <4>1, LoginGoes DEF Typed, Serves, Asking, LoginUser, InRedis, InUserMgr
    <3>3. CASE LoginReply(v)
      <4>1. Pops(v) /\ s = Asking(v)
        BY <2>2, <3>3 DEF LoginReply, LoginAt, Answer, LoginKeeps, Pops, Serves
      <4> QED
        BY <1>3, <1>5, <4>1, AnsweredOnce
    <3> QED
      BY <2>3, <2>4, <3>1, <3>2, <3>3
      DEF LoginHandler, LoginLock, LoginGetIp, LoginKickHere, LoginKickThere, LoginKicked,
          LoginSetIp, LoginSetSession, LoginAt
  <2>5. CASE ~LoginHandler(v)
    <3>1. login'[v] = login[v] /\ logicQ'[v] = logicQ[v]
      BY <2>3, <2>5, WorkerMoves
    <3> QED
      BY <2>2, <3>1 DEF Serves, Asking, LoginUser
  <2> QED
    BY <2>4, <2>5
<1> QED
  BY <1>4, <1>5

\* A connection met in Redis or UserMgr has been accepted.
LEMMA RecordedIsOld ==
  ASSUME Typed, Here, NEW s \in Sessions
  PROVE  /\ \A u \in Users : usession[u] = s => srv[s] \in Servers /\ sock[s] # "new"
         /\ \A v \in Servers, u \in Users : userMgr[v][u] = s => srv[s] = v /\ sock[s] # "new"
<1>1. s # NoSession
  BY NullAssumption
<1>2. \A u \in Users : usession[u] = s => srv[s] \in Servers
  BY <1>1 DEF Here, InMaps
<1>3. \A v \in Servers, u \in Users : userMgr[v][u] = s => srv[s] = v
  BY <1>1 DEF Here, InMaps
<1>4. srv[s] \in Servers => sock[s] # "new"
  BY NullAssumption DEF Here, Placed
<1> QED
  BY <1>2, <1>3, <1>4

LEMMA KnownOnceStep ==
  ASSUME Typed, Here, OneRequest, UserIdSet, KnownOnce, Alive
  PROVE  KnownOnce'
<1> SUFFICES ASSUME NEW s \in Sessions, NEW u \in Users
             PROVE  /\ usession'[u] = s => Known(s, u, InRedis)'
                    /\ \A w \in Servers : userMgr'[w][u] = s => Known(s, u, InUserMgr)'
  BY DEF KnownOnce
<1>0. login \in [Servers -> LoginStates] /\ sent \in [Sessions -> 0..MaxMsgs] /\ s # NoSession
  BY NullAssumption DEF Typed, TypeOK, LoginStates
<1>1. ASSUME usession'[u] = s PROVE Known(s, u, InRedis)'
  <2>1. CASE usession[u] = s
    BY <2>1, KnownKept, RecordedIsOld DEF KnownOnce
  <2>2. CASE usession[u] # s
    <3>1. PICK v \in Servers : LoginSetSession(v) /\ LoginUser(v) = u /\ usession'[u] = Asking(v)
      BY <1>0, <1>1, <2>2, UsessionChanges
    <3>2. /\ login[v].pc = "setSession" /\ LoginGoesTo(v, "setMgr")
          /\ UNCHANGED <<logicQ, userId, sent>>
      BY <3>1 DEF LoginSetSession, LoginAt, LoginKeeps
    <3>3. userId[s] = u /\ sent[s] > 0 /\ s = Asking(v)
      BY <1>1, <3>1, <3>2, AskingPends DEF UserIdSet
    <3>4. Serves(v, s, u, InRedis)'
      BY <3>1, <3>2, <3>3, LoginGoes DEF Typed, Serves, Asking, LoginUser, InRedis
    <3> QED
      BY <3>2, <3>3, <3>4 DEF Known
  <2> QED
    BY <2>1, <2>2
<1>2. ASSUME NEW w \in Servers, userMgr'[w][u] = s PROVE Known(s, u, InUserMgr)'
  <2>1. CASE userMgr[w][u] = s
    BY <2>1, KnownKept, RecordedIsOld DEF KnownOnce
  <2>2. CASE userMgr[w][u] # s
    <3>1. LoginSetMgr(w) /\ LoginUser(w) = u /\ s = Asking(w)
      BY <1>2, <2>2, MgrChanges
    <3>2. /\ login[w].pc = "setMgr" /\ LoginGoesTo(w, "release")
          /\ UNCHANGED <<logicQ, userId, sent>>
      BY <3>1 DEF LoginSetMgr, LoginAt, LoginKeeps
    <3>3. userId[s] = u /\ sent[s] > 0
      BY <3>1, <3>2, AskingPends DEF UserIdSet
    <3>4. Serves(w, s, u, InUserMgr)'
      BY <3>1, <3>2, <3>3, LoginGoes DEF Typed, Serves, Asking, LoginUser, InUserMgr
    <3> QED
      BY <3>2, <3>3, <3>4 DEF Known
  <2> QED
    BY <2>1, <2>2
<1> QED
  BY <1>1, <1>2

LEMMA UserIdSetStep ==
  ASSUME Typed, Here, OneRequest, UserIdSet, Alive
  PROVE  UserIdSet'
<1>0. /\ login \in [Servers -> LoginStates] /\ userId \in [Sessions -> Users \cup {NoUser}]
  BY DEF Typed, TypeOK, LoginStates
<1> SUFFICES ASSUME NEW v \in Servers, login'[v].pc \in {"setSession", "setMgr", "release", "reply"}
             PROVE  userId'[Asking(v)'] = LoginUser(v)'
  BY DEF UserIdSet
<1>1. CASE LoginHandler(v)
  <2>1. Asking(v)' = Asking(v) /\ LoginUser(v)' = LoginUser(v) /\ Asking(v) \in Sessions
    BY <1>1, LoginSteps DEF Asking, LoginUser
  <2>2. CASE LoginSetIp(v)
    BY <1>0, <2>1, <2>2 DEF LoginSetIp
  <2>3. CASE ~LoginSetIp(v)
    <3>1. userId' = userId
      BY <1>1, <2>3, LoginChanges
    <3>2. login[v].pc \in {"setSession", "setMgr", "release", "reply"}
      <4>1. CASE LoginLock(v) \/ LoginKickHere(v) \/ LoginKickThere(v)
        BY <4>1, LoginGoes DEF LoginLock, LoginKickHere, LoginKickThere, Typed
      <4>2. CASE LoginGetIp(v)
        <5>1. CASE LoginGoesTo(v, "setIp")
          BY <5>1, LoginGoes DEF Typed
        <5>2. CASE ~LoginGoesTo(v, "setIp")
          BY <1>0, <4>2, <5>2 DEF LoginGetIp, KickPlace
        <5> QED
          BY <5>1, <5>2
      <4>3. CASE LoginKicked(v) \/ LoginReply(v)
        BY <1>0, <4>3 DEF LoginKicked, LoginReply, AtRest
      <4>4. CASE LoginSetSession(v) \/ LoginSetMgr(v) \/ LoginRelease(v)
        BY <4>4 DEF LoginSetSession, LoginSetMgr, LoginRelease, LoginAt
      <4> QED
        BY <1>1, <2>3, <4>1, <4>2, <4>3, <4>4 DEF LoginHandler
    <3> QED
      BY <2>1, <3>1, <3>2 DEF UserIdSet
  <2> QED
    BY <2>2, <2>3
<1>2. CASE ~LoginHandler(v)
  <2>1. login[v].pc # "idle" /\ login'[v] = login[v] /\ logicQ'[v] = logicQ[v]
    <3>1. CASE login[v].pc = "idle"
      <4>1. login'[v] = login[v]
        <5>1. CASE CalmStep
          BY <5>1, CalmKeeps DEF Typed
        <5>2. CASE \E t \in Dealers : Deal(t)
          BY <5>2, DealSteps
        <5>3. CASE \E w \in Servers : LoginHandler(w)
          BY <1>2, <5>3, LoginSteps
        <5>4. CASE (\E k \in kicks : NotifyKickUser(k) \/ KickLost(k)) \/ \E x \in Users : LockExpires(x)
          BY <5>4 DEF NotifyKickUser, KickLost, LockExpires, server
        <5> QED
          BY <5>1, <5>2, <5>3, <5>4, AliveKinds
      <4> QED
        BY <3>1, <4>1
    <3>2. CASE login[v].pc # "idle"
      BY <1>2, <3>2, WorkerMoves
    <3> QED
      BY <3>1, <3>2
  <2>2. Asking(v)' = Asking(v) /\ LoginUser(v)' = LoginUser(v)
    BY <2>1 DEF Asking, LoginUser
  <2>3. userId[Asking(v)] = LoginUser(v) /\ Asking(v) \in Sessions /\ sock[Asking(v)] # "new"
    BY <2>1, AskingPends DEF UserIdSet
  <2>4. ASSUME NEW w \in Servers, LoginSetIp(w), Asking(w) = Asking(v) PROVE FALSE
    <3>1. login[w].pc = "setIp"
      BY <2>4 DEF LoginSetIp, LoginAt
    <3>2. w = v
      BY <2>1, <2>4, <3>1, OneAsks
    <3> QED
      BY <1>2, <2>4, <3>2 DEF LoginHandler
  <2> QED
    BY <2>2, <2>3, <2>4, UserIdChanges
<1> QED
  BY <1>1, <1>2

\* While the only request of s is pending, no other login takes its place in UserMgr.
LEMMA PendingKeepsMgr ==
  ASSUME Typed, Here, OneRequest, KnownOnce, Alive, NEW s \in Sessions, sent[s] = 1, Pending(s), InMgr(s)
  PROVE  InMgr(s)'
<1>1. PICK w \in Servers, u \in Users : userMgr[w][u] = s
  BY DEF InMgr
<1>2. PICK v \in Servers : Serves(v, s, u, InUserMgr)
  BY <1>1 DEF KnownOnce, Known
<1>3. v = w
  BY <1>1, <1>2, AskingPends, RecordedIsOld DEF Serves, InUserMgr
<1>4. ~LoginSetMgr(w)
  BY <1>2, <1>3 DEF LoginSetMgr, LoginAt, Serves, InUserMgr
<1> QED
  BY <1>1, <1>4, MgrChanges DEF InMgr

\* A login whose handler has not entered it in UserMgr yet is not there.
LEMMA NotEntered ==
  ASSUME Typed, Here, OneRequest, KnownOnce, NEW v \in Servers,
         login[v].pc \notin {"idle", "release", "reply"},
         sent[Asking(v)] = 1
  PROVE  ~InMgr(Asking(v))
<1> SUFFICES ASSUME NEW w \in Servers, NEW u \in Users, userMgr[w][u] = Asking(v) PROVE FALSE
  BY DEF InMgr
<1>1. Asking(v) \in Sessions /\ Pending(Asking(v))
  BY AskingPends
<1>2. PICK x \in Servers : Serves(x, Asking(v), u, InUserMgr)
  BY <1>1 DEF KnownOnce, Known
<1> QED
  BY <1>2, OneAsks DEF Serves, InUserMgr

\* A first request is all that is under way on a connection nothing was sent to.
NotSent == \A s \in Sessions :
  sent[s] <= 1 /\ queued[s] > 0 => sent[s] = 1 /\ (Pending(s) => InMgr(s))

LEMMA NotSentStep ==
  ASSUME Typed, Here, OneRequest, KnownOnce, NotSent, Alive
  PROVE  NotSent'
<1> SUFFICES ASSUME NEW s \in Sessions, sent'[s] <= 1, queued'[s] > 0
             PROVE  sent'[s] = 1 /\ (Pending(s)' => InMgr(s)')
  BY DEF NotSent
<1>0. /\ sent \in [Sessions -> 0..MaxMsgs] /\ queued \in [Sessions -> Nat]
      /\ userMgr \in [Servers -> [Users -> Sessions \cup {NoSession}]]
  BY DEF Typed, TypeOK
<1>1. /\ sent[s] \in Nat /\ queued[s] \in Nat
      /\ sent'[s] = sent[s] \/ sent'[s] = sent[s] + 1
  BY <1>0, SentChanges
<1>2. CASE queued[s] > 0
  <2>1. sent[s] = 1 /\ sent'[s] = 1 /\ (Pending(s) => InMgr(s))
    BY <1>1, <1>2 DEF NotSent
  <2>2. \A x \in Users \cup {NoUser} : ~ReadRequest(s, x)
    BY <1>0, <2>1 DEF ReadRequest
  <2>3. Pending(s)' => Pending(s)
    BY <2>2, PendingChanges
  <2> QED
    BY <2>1, <2>3, PendingKeepsMgr
<1>3. CASE queued[s] = 0
  <2>1. ~WriteDone(s)
    BY <1>0, <1>3 DEF WriteDone, Typed, TypeOK
  <2>2. Sends(s)
    BY <1>3, <2>1, SendChanges
  <2>3. sent'[s] = sent[s] /\ userMgr' = userMgr
    BY <2>2 DEF Sends
  <2>4. ASSUME NEW v \in Servers, Pops(v), Asking(v) = s PROVE sent[s] = 1 /\ ~Pending(s)'
    <3>1. Pending(s)
      <4>1. logicQ[v] \in Seq(Requests) /\ logicQ[v] # <<>>
        BY <2>4 DEF Typed, TypeOK, Requests, Pops
      <4>2. Head(logicQ[v]) \in Items(logicQ[v])
        BY <4>1, QueuePop
      <4> QED
        BY <2>4, <4>2 DEF Pending, Waits, Asking
    <3>2. sent[s] = 1
      BY <1>1, <2>3, <3>1 DEF OneRequest
    <3> QED
      BY <2>4, <3>2, AnsweredOnce
  <2>5. ASSUME NEW v \in Servers, NEW u \in Users, userMgr[v][u] = s PROVE sent[s] = 1 /\ InMgr(s)'
    <3>1. sent[s] > 0
      BY <2>5 DEF KnownOnce, Known
    <3> QED
      BY <1>1, <2>3, <2>5, <3>1 DEF InMgr
  <2> QED
    BY <2>2, <2>3, <2>4, <2>5 DEF Sends
<1> QED
  BY <1>1, <1>2, <1>3

\* A connection is read until this side closes it, unless its only request was one
\* too long.
Reads == \A s \in Sessions : sock[s] \in {"up", "gone"} /\ ~reading[s] /\ sent[s] = 1 =>
  ~Pending(s) /\ \A u \in Users : usession[u] # s

LEMMA ReadsStep ==
  ASSUME Typed, Here, OneRequest, KnownOnce, Reads, Alive
  PROVE  Reads'
<1> SUFFICES ASSUME NEW s \in Sessions, sock'[s] \in {"up", "gone"}, ~reading'[s], sent'[s] = 1
             PROVE  ~Pending(s)' /\ \A u \in Users : usession'[u] # s
  BY DEF Reads
<1>0. /\ sent \in [Sessions -> 0..MaxMsgs] /\ sock \in [Sessions -> {"new", "up", "gone", "closed"}]
      /\ usession \in [Users -> Sessions \cup {NoSession}] /\ s # NoSession
  BY NullAssumption DEF Typed, TypeOK
<1>1. /\ sent[s] \in Nat
      /\ sent'[s] = sent[s] \/ (sent'[s] = sent[s] + 1 /\ reading[s])
  BY <1>0, SentChanges
<1>2. CASE ReadTooLong(s)
  <2>1. sent[s] = 0 /\ UNCHANGED <<logicQ, posting, usession>>
    BY <1>0, <1>1, <1>2 DEF ReadTooLong, redis
  <2>2. ~Pending(s) /\ \A u \in Users : usession[u] # s
    BY <2>1 DEF OneRequest, KnownOnce, Known
  <2> QED
    BY <2>1, <2>2 DEF Pending, Waits, Posts
<1>3. CASE ~ReadTooLong(s)
  <2>1. sock[s] \in {"up", "gone"} /\ ~reading[s]
    <3>1. ReadError(s) \/ WriteError(s) => sock'[s] = "closed"
      BY <1>0 DEF ReadError, WriteError, CloseAndDeal
    <3> QED
      BY <1>0, <1>3, <3>1, SocketChanges
  <2>2. sent[s] = 1
    BY <1>1, <2>1
  <2>3. ~Pending(s) /\ \A u \in Users : usession[u] # s
    BY <2>1, <2>2 DEF Reads
  <2>4. \A u \in Users \cup {NoUser} : ~ReadRequest(s, u)
    BY <2>1 DEF ReadRequest
  <2>5. ~Pending(s)'
    BY <2>3, <2>4, PendingChanges
  <2>6. ASSUME NEW u \in Users, usession'[u] = s PROVE FALSE
    <3>1. PICK v \in Servers : LoginSetSession(v) /\ usession'[u] = Asking(v)
      BY <1>0, <2>3, <2>6, UsessionChanges
    <3>2. login[v].pc # "idle"
      BY <3>1 DEF LoginSetSession, LoginAt
    <3> QED
      BY <2>3, <2>6, <3>1, <3>2, AskingPends
  <2> QED
    BY <2>5, <2>6
<1> QED
  BY <1>2, <1>3

\* A kick that was neither lost nor given up is waited for.
KickAwaited == ~kickFailed => \A k \in kicks : login[k.from].pc = "kickWait" /\ k = KickOf(k.from)

LEMMA KickAwaitedStep ==
  ASSUME Typed, Here, OneRequest, KickAwaited, Alive
  PROVE  KickAwaited'
<1> SUFFICES ASSUME ~kickFailed', NEW k \in kicks'
             PROVE  login'[k.from].pc = "kickWait" /\ k = KickOf(k.from)'
  BY DEF KickAwaited
<1>1. ~kickFailed
  BY FailedStays
<1>2. CASE k \in kicks
  <2>1. k.from \in Servers /\ login[k.from].pc = "kickWait" /\ k = KickOf(k.from)
    BY <1>1, <1>2 DEF KickAwaited, Typed, TypeOK
  <2>2. ~LoginHandler(k.from)
    BY <1>1, <1>2, <2>1
    DEF LoginHandler, LoginLock, LoginGetIp, LoginKickHere, LoginKickThere, LoginKicked, KickFails,
        LoginSetIp, LoginSetSession, LoginSetMgr, LoginRelease, LoginReply, LoginAt, KickOf
  <2>3. login'[k.from] = login[k.from] /\ logicQ'[k.from] = logicQ[k.from]
    BY <2>1, <2>2, WorkerMoves
  <2> QED
    BY <2>1, <2>3 DEF KickOf, LoginUser
<1>3. CASE k \notin kicks
  <2>1. PICK v \in Servers : LoginKickThere(v) /\ k = KickOf(v)
    BY <1>3, KicksChange
  <2>2. k.from = v /\ LoginGoesTo(v, "kickWait") /\ logicQ' = logicQ
    BY <2>1 DEF LoginKickThere, KickOf
  <2>3. login'[v].pc = "kickWait" /\ login'[v].to = login[v].to
    BY <2>2, LoginGoes DEF Typed
  <2> QED
    BY <2>1, <2>2, <2>3 DEF KickOf, LoginUser
<1> QED
  BY <1>2, <1>3

\* No command about the session of u in Redis was lost.
Recorded(u) == Answered({"setSession", "check", "delSession"}, u)

LEMMA RecordedKept ==
  ASSUME Typed, Alive, NEW u, Recorded(u)'
  PROVE  Recorded(u) /\ \A c \in {"setSession", "check", "delSession"} : <<c, u>> \notin lost'
  BY LostGrows DEF Recorded, Answered, Alive

\* UserMgr knows the connection Redis names, or is about to.
MgrKnows == \A u \in Users : LET s == usession[u] IN
  Recorded(u) /\ s # NoSession /\ sent[s] = 1 =>
    userMgr[srv[s]][u] = s \/ \E v \in Servers : login[v].pc = "setMgr" /\ LoginUser(v) = u

\* A connection stays with the server that has accepted it.
LEMMA PlaceStays ==
  ASSUME Typed, Here, Alive, NEW s \in Sessions, srv[s] \in Servers
  PROVE  srv'[s] = srv[s]
<1>1. sock[s] # "new"
  BY NullAssumption DEF Here, Placed
<1>2. CASE CalmStep
  BY <1>1, <1>2, CalmKeeps DEF Typed
<1>3. CASE \E t \in Dealers : Deal(t)
  BY <1>3, DealSteps DEF connection
<1>4. CASE \E v \in Servers : LoginHandler(v)
  BY <1>4, LoginSteps
<1>5. CASE (\E k \in kicks : NotifyKickUser(k) \/ KickLost(k)) \/ \E x \in Users : LockExpires(x)
  BY <1>5 DEF NotifyKickUser, KickLost, LockExpires, connection
<1> QED
  BY <1>2, <1>3, <1>4, <1>5, AliveKinds

\* What is left of a step for the connection Redis names afterwards.
LEMMA RecordedBefore ==
  ASSUME Typed, Here, OneRequest, KnownOnce, Alive, NEW u \in Users, NEW s \in Sessions,
         usession'[u] = s, sent'[s] = 1
  PROVE  /\ sent[s] = 1 /\ srv'[s] = srv[s] /\ srv[s] \in Servers /\ sock[s] # "new"
         /\ \/ usession[u] = s
            \/ \E v \in Servers : /\ LoginSetSession(v) /\ LoginUser(v) = u /\ s = Asking(v)
                                  /\ srv[s] = v /\ Pending(s) /\ ~InMgr(s)
<1>0. /\ sent \in [Sessions -> 0..MaxMsgs] /\ s # NoSession
      /\ usession \in [Users -> Sessions \cup {NoSession}]
  BY NullAssumption DEF Typed, TypeOK
<1>1. sent[s] \in Nat /\ (sent'[s] = sent[s] \/ sent'[s] = sent[s] + 1)
  BY <1>0, SentChanges
<1>2. srv[s] \in Servers => srv'[s] = srv[s]
  BY PlaceStays
<1>3. CASE usession[u] = s
  <2>1. sent[s] > 0 /\ srv[s] \in Servers /\ sock[s] # "new"
    BY <1>3, RecordedIsOld DEF KnownOnce, Known
  <2> QED
    BY <1>1, <1>2, <1>3, <2>1
<1>4. CASE usession[u] # s
  <2>1. PICK v \in Servers : LoginSetSession(v) /\ LoginUser(v) = u /\ s = Asking(v)
    BY <1>0, <1>4, UsessionChanges
  <2>2. login[v].pc = "setSession"
    BY <2>1 DEF LoginSetSession, LoginAt
  <2>3. srv[s] = v /\ sock[s] # "new" /\ Pending(s) /\ sent[s] > 0
    BY <2>1, <2>2, AskingPends
  <2>4. sent[s] = 1
    BY <1>1, <2>3
  <2>5. ~InMgr(s)
    BY <2>1, <2>2, <2>4, NotEntered
  <2> QED
    BY <1>2, <2>1, <2>3, <2>4, <2>5
<1> QED
  BY <1>3, <1>4

LEMMA MgrKnowsStep ==
  ASSUME Typed, Here, LoginStage, OneRequest, KnownOnce, MgrKnows, Alive
  PROVE  MgrKnows'
<1> SUFFICES ASSUME NEW u \in Users, Recorded(u)', usession'[u] # NoSession,
                    sent'[usession'[u]] = 1
             PROVE  \/ userMgr'[srv'[usession'[u]]][u] = usession'[u]
                    \/ \E v \in Servers : login'[v].pc = "setMgr" /\ LoginUser(v)' = u
  BY DEF MgrKnows
<1>0. /\ login \in [Servers -> LoginStates] /\ usession' \in [Users -> Sessions \cup {NoSession}]
      /\ userMgr \in [Servers -> [Users -> Sessions \cup {NoSession}]]
  <2>1. TypeOK'
    BY TypeStep DEF Alive
  <2> QED
    BY <2>1 DEF Typed, TypeOK, LoginStates
<1>1. PICK s \in Sessions : s = usession'[u]
  BY <1>0
<1>7. Recorded(u) /\ <<"setSession", u>> \notin lost
  BY RecordedKept DEF Recorded, Answered
<1>2. /\ sent[s] = 1 /\ srv'[s] = srv[s] /\ srv[s] \in Servers
      /\ \/ usession[u] = s
         \/ \E v \in Servers : LoginSetSession(v) /\ LoginUser(v) = u
  BY <1>1, RecordedBefore
<1>3. ASSUME NEW v \in Servers, LoginSetSession(v), LoginUser(v) = u
      PROVE  login'[v].pc = "setMgr" /\ LoginUser(v)' = u
  <2>1. LoginGoesTo(v, "setMgr") /\ logicQ' = logicQ
    BY <1>3 DEF LoginSetSession
  <2> QED
    BY <1>3, <2>1, LoginGoes DEF Typed, LoginUser
<1>4. ASSUME usession[u] = s, userMgr[srv[s]][u] = s PROVE userMgr'[srv[s]][u] = s
  <2>1. CASE LoginSetMgr(srv[s]) /\ LoginUser(srv[s]) = u
    <3>1. login[srv[s]].pc = "setMgr" /\ userMgr' = [userMgr EXCEPT ![srv[s]][u] = Asking(srv[s])]
      BY <2>1 DEF LoginSetMgr, LoginAt
    <3>2. Asking(srv[s]) = s
      BY <1>2, <1>4, <1>7, <2>1, <3>1 DEF LoginStage
    <3> QED
      BY <1>0, <1>2, <3>1, <3>2
  <2>2. CASE ~(LoginSetMgr(srv[s]) /\ LoginUser(srv[s]) = u)
    BY <1>2, <1>4, <2>2, MgrChanges
  <2> QED
    BY <2>1, <2>2
<1>5. ASSUME NEW v \in Servers, usession[u] = s, login[v].pc = "setMgr", LoginUser(v) = u
      PROVE  (login'[v].pc = "setMgr" /\ LoginUser(v)' = u) \/ userMgr'[srv[s]][u] = s
  <2>1. CASE LoginHandler(v)
    <3>1. LoginSetMgr(v)
      BY <1>5, <2>1
      DEF LoginHandler, LoginLock, LoginGetIp, LoginKickHere, LoginKickThere, LoginKicked, LoginSetIp,
          LoginSetSession, LoginRelease, LoginReply, LoginAt
    <3>2. Asking(v) = s /\ srv[s] = v
      BY <1>5, <1>7, AskingPends DEF LoginStage
    <3> QED
      BY <1>0, <1>5, <3>1, <3>2 DEF LoginSetMgr
  <2>2. CASE ~LoginHandler(v)
    BY <1>5, <2>2, WorkerMoves DEF LoginUser
  <2> QED
    BY <2>1, <2>2
<1>6. CASE usession[u] = s
  <2>1. userMgr[srv[s]][u] = s \/ \E v \in Servers : login[v].pc = "setMgr" /\ LoginUser(v) = u
    BY <1>2, <1>6, <1>7, NullAssumption DEF MgrKnows
  <2> QED
    BY <1>1, <1>2, <1>4, <1>5, <1>6, <2>1
<1> QED
  BY <1>2, <1>3, <1>6

\* A connection whose login has not been entered in UserMgr is in the table.
AskingInTable == \A s \in Sessions : sent[s] = 1 /\ Pending(s) /\ ~InMgr(s) => InTable(s)

LEMMA TableKept ==
  ASSUME Typed, Here, Alive, NEW s \in Sessions, srv[s] \in Servers, srv'[s] = srv[s],
         InTable(s), ~InTable(s)'
  PROVE  \/ ReadTooLong(s)
         \/ \E v \in Servers : LoginKickHere(v) /\ userMgr[v][LoginUser(v)] = s
         \/ \E k \in kicks : NotifyKickUser(k) /\ userMgr[k.to][k.u] = s
<1>1. sock[s] = "closed" => sock'[s] = "closed"
  <2>1. sock \in [Sessions -> {"new", "up", "gone", "closed"}]
    BY DEF Typed, TypeOK
  <2>2. ReadTooLong(s) => sock[s] # "closed"
    BY DEF ReadTooLong
  <2>3. ReadError(s) \/ WriteError(s) => sock'[s] = "closed"
    BY <2>1 DEF ReadError, WriteError, CloseAndDeal
  <2> QED
    BY <2>2, <2>3, SocketChanges
<1>2. sock[s] # "closed" /\ s \in sessions[srv[s]] /\ s \notin sessions'[srv[s]]
  BY <1>1 DEF InTable
<1> QED
  BY <1>2, TableChanges

LEMMA AskingInTableStep ==
  ASSUME Typed, Here, OneRequest, KnownOnce, AskingInTable, Alive
  PROVE  AskingInTable'
<1> SUFFICES ASSUME NEW s \in Sessions, sent'[s] = 1, Pending(s)', ~InMgr(s)'
             PROVE  InTable(s)'
  BY DEF AskingInTable
<1>0. /\ sent \in [Sessions -> 0..MaxMsgs] /\ sock \in [Sessions -> {"new", "up", "gone", "closed"}]
  BY DEF Typed, TypeOK
<1>1. sent[s] \in Nat /\ (sent'[s] = sent[s] \/ sent'[s] = sent[s] + 1)
  BY <1>0, SentChanges
<1>2. ASSUME NEW u \in Users \cup {NoUser}, ReadRequest(s, u) PROVE InTable(s)'
  BY <1>0, <1>2 DEF ReadRequest, CheckValid, InTable
<1>3. ASSUME \A u \in Users \cup {NoUser} : ~ReadRequest(s, u) PROVE InTable(s)'
  <2>1. Pending(s)
    BY <1>3, PendingChanges
  <2>2. sent[s] = 1 /\ ~ReadTooLong(s)
    <3>1. sent[s] # 0
      BY <2>1 DEF OneRequest
    <3>2. ReadTooLong(s) => sent'[s] = sent[s] + 1
      BY <1>0 DEF ReadTooLong
    <3> QED
      BY <1>1, <3>1, <3>2
  <2>3. ~InMgr(s)
    BY <2>1, <2>2, PendingKeepsMgr
  <2>4. InTable(s)
    BY <2>1, <2>2, <2>3 DEF AskingInTable
  <2>5. srv[s] \in Servers /\ srv'[s] = srv[s]
    <3>1. srv[s] \in Servers
      <4>1. ASSUME NEW v \in Servers, NEW m \in Items(logicQ[v]), m[1] = s PROVE srv[s] = v
        BY <4>1 DEF Here, InQueues
      <4>2. ASSUME NEW m \in posting, m[1] = s PROVE srv[s] \in Servers
        BY <4>2 DEF Here, InQueues
      <4> QED
        BY <2>1, <4>1, <4>2 DEF Pending, Waits, Posts
    <3> QED
      BY <3>1, PlaceStays
  <2>6. ~(\E v \in Servers : LoginKickHere(v) /\ userMgr[v][LoginUser(v)] = s)
    BY <2>3, LoginSteps DEF InMgr, LoginHandler
  <2>7. ~(\E k \in kicks : NotifyKickUser(k) /\ userMgr[k.to][k.u] = s)
    <3>1. \A k \in kicks : k.to \in Servers /\ k.u \in Users
      BY DEF Typed, TypeOK
    <3> QED
      BY <2>3, <3>1 DEF InMgr
  <2> QED
    BY <2>2, <2>4, <2>5, <2>6, <2>7, TableKept
<1> QED
  BY <1>2, <1>3

\* The connection Redis names is in the table, until the next login of the user has
\* thrown it out, while no command about the key was lost.
Replaces(v, u) == login[v].pc \in {"kickWait", "setIp", "setSession"} /\ LoginUser(v) = u
CurrentInTable == ~kickFailed => \A u \in Users : LET s == usession[u] IN
  Recorded(u) /\ s # NoSession /\ sent[s] = 1 => InTable(s) \/ \E v \in Servers : Replaces(v, u)

LEMMA CurrentInTableStep ==
  ASSUME Typed, Here, OneRequest, KnownOnce, KickAwaited, AskingInTable, CurrentInTable, Alive
  PROVE  CurrentInTable'
<1>0. /\ login \in [Servers -> LoginStates] /\ usession' \in [Users -> Sessions \cup {NoSession}]
      /\ sent \in [Sessions -> 0..MaxMsgs]
  <2>1. TypeOK'
    BY TypeStep DEF Alive
  <2> QED
    BY <2>1 DEF Typed, TypeOK, LoginStates
<1>1. SUFFICES ASSUME ~kickFailed', NEW u \in Users, NEW s \in Sessions, Recorded(u)',
                      usession'[u] = s, sent'[s] = 1
               PROVE  InTable(s)' \/ \E v \in Servers : Replaces(v, u)'
  BY <1>0 DEF CurrentInTable, InTable
<1>r. Recorded(u) /\ <<"setSession", u>> \notin lost'
  BY <1>1, RecordedKept
<1>2. /\ sent[s] = 1 /\ srv'[s] = srv[s] /\ srv[s] \in Servers
      /\ \/ usession[u] = s
         \/ \E v \in Servers : /\ LoginSetSession(v) /\ LoginUser(v) = u /\ s = Asking(v)
                               /\ Pending(s) /\ ~InMgr(s)
  BY <1>1, RecordedBefore
<1>3. ~kickFailed
  BY <1>1, FailedStays
<1>4. ~ReadTooLong(s)
  BY <1>0, <1>1, <1>2 DEF ReadTooLong
<1>5. ASSUME NEW v \in Servers, LoginSetSession(v), Pending(s), ~InMgr(s) PROVE InTable(s)'
  <2>1. InTable(s)
    BY <1>2, <1>5 DEF AskingInTable
  <2>2. sessions' = sessions /\ sock' = sock
    BY <1>5 DEF LoginSetSession, LoginKeeps
  <2> QED
    BY <1>2, <2>1, <2>2 DEF InTable
<1>6. ASSUME usession[u] = s, NEW w \in Servers, NEW x \in Users, userMgr[w][x] = s PROVE x = u
  <2>1. userId[s] = u
    BY <1>2, <1>6 DEF KnownOnce, Known
  <2>2. userId[s] = x
    BY <1>2, <1>6 DEF KnownOnce, Known
  <2> QED
    BY <2>1, <2>2
<1>7. ASSUME usession[u] = s, InTable(s), ~InTable(s)' PROVE \E v \in Servers : Replaces(v, u)'
  <2>1. ASSUME NEW v \in Servers, LoginKickHere(v), userMgr[v][LoginUser(v)] = s PROVE Replaces(v, u)'
    <3>1. LoginUser(v) = u
      BY <1>6, <1>7, <2>1, LoginSteps DEF LoginHandler
    <3>2. LoginGoesTo(v, "setIp") /\ logicQ' = logicQ
      BY <2>1 DEF LoginKickHere
    <3> QED
      BY <3>1, <3>2, LoginGoes DEF Typed, Replaces, LoginUser
  <2>2. ASSUME NEW k \in kicks, NotifyKickUser(k), userMgr[k.to][k.u] = s PROVE Replaces(k.from, u)'
    <3>1. k.from \in Servers /\ k.to \in Servers /\ k.u \in Users
      BY DEF Typed, TypeOK
    <3>2. k.u = u
      BY <1>6, <1>7, <2>2, <3>1
    <3>3. login[k.from].pc = "kickWait" /\ LoginUser(k.from) = u
      BY <1>3, <3>2 DEF KickAwaited, KickOf
    <3>4. UNCHANGED <<login, logicQ>>
      BY <2>2 DEF NotifyKickUser
    <3> QED
      BY <3>3, <3>4 DEF Replaces, LoginUser
  <2>3. \A k \in kicks : k.from \in Servers
    BY DEF Typed, TypeOK
  <2> QED
    BY <1>2, <1>4, <1>7, <2>1, <2>2, <2>3, TableKept
<1>8. ASSUME usession[u] = s, NEW v \in Servers, Replaces(v, u) PROVE Replaces(v, u)'
  <2>0. login[v].pc \in {"kickWait", "setIp", "setSession"} /\ LoginUser(v) = u
    BY <1>8 DEF Replaces
  <2>1. CASE LoginKicked(v) \/ LoginSetIp(v)
    <3>1. logicQ' = logicQ /\ login'[v].pc \in {"setIp", "setSession"}
      BY <1>0, <2>1 DEF LoginKicked, LoginSetIp
    <3> QED
      BY <2>0, <3>1 DEF Replaces, LoginUser
  <2>2. CASE LoginSetSession(v)
    <3>1. login[v].pc = "setSession" /\ usession' = [usession EXCEPT ![u] = Asking(v)]
      BY <1>r, <2>0, <2>2 DEF LoginSetSession, LoginAt, SetSession, Lose
    <3>2. s = Asking(v)
      BY <1>1, <3>1 DEF Typed, TypeOK
    <3>3. Pending(s)
      BY <3>1, <3>2, AskingPends
    <3>4. PICK w \in Servers : Serves(w, s, u, InRedis)
      BY <1>2, <1>8, <3>3 DEF KnownOnce, Known
    <3>5. login[w].pc \in InRedis /\ Asking(w) = Asking(v)
      BY <3>2, <3>4 DEF Serves
    <3>6. w = v
      BY <3>1, <3>5, OneAsks DEF InRedis
    <3> QED
      BY <3>1, <3>5, <3>6 DEF InRedis
  <2>3. CASE ~LoginHandler(v)
    BY <2>0, <2>3, WorkerMoves DEF Replaces, LoginUser
  <2> QED
    BY <2>0, <2>1, <2>2, <2>3
    DEF LoginHandler, LoginLock, LoginGetIp, LoginKickHere, LoginKickThere, LoginSetMgr, LoginRelease,
        LoginReply, LoginAt
<1>9. CASE usession[u] = s
  <2>1. InTable(s) \/ \E v \in Servers : Replaces(v, u)
    BY <1>2, <1>3, <1>9, <1>r, NullAssumption DEF CurrentInTable
  <2> QED
    BY <1>1, <1>7, <1>8, <1>9, <2>1
<1> QED
  BY <1>1, <1>2, <1>5, <1>9

\* A clean-up of the connection s of u comes: a callback is pending that will find
\* the connection broken, or has found it, or the answer to the login will be the
\* first message sent on it.
CleanUp(s, u) ==
  \/ reading[s]
  \/ \E t \in Dealers : deal[t].pc \in {"acquire", "check", "delSession"} /\ deal[t].s = s /\ deal[t].u = u
  \/ s \in expired[srv[s]]
  \/ writing[s] = "doomed"
  \/ queued[s] = 0 /\ \E v \in Servers : login[v].pc \in InRedis /\ Asking(v) = s

CleanUpComes == \A u \in Users : LET s == usession[u] IN
  Recorded(u) /\ s # NoSession /\ sent[s] = 1 /\ sock[s] # "up" => CleanUp(s, u)

\* The clean-up that begins with a broken callback is that of the user.
LEMMA CleanUpBegins ==
  ASSUME Typed, NEW s \in Sessions, NEW u \in Users, userId[s] = u,
         ReadError(s) \/ WriteError(s) \/ \E v \in Servers : TimerDeal(v, s)
  PROVE  CleanUp(s, u)'
<1>0. deal \in [Dealers -> DealStates]
  BY DEF Typed, TypeOK, DealStates, DealPlaces
<1>d. Dealing(s) = [pc |-> "acquire", s |-> s, u |-> u]
  BY NullAssumption DEF Dealing
<1>1. CASE ReadError(s) \/ WriteError(s)
  <2>1. deal' = [deal EXCEPT ![Io(s)] = [pc |-> "acquire", s |-> s, u |-> u]]
    BY <1>1, <1>d DEF ReadError, WriteError, CloseAndDeal
  <2>2. Io(s) \in Dealers
    BY ThreadNames
  <2>3. deal'[Io(s)] = [pc |-> "acquire", s |-> s, u |-> u]
    BY <1>0, <2>1, <2>2
  <2> QED
    BY <2>2, <2>3 DEF CleanUp
<1>2. ASSUME NEW v \in Servers, TimerDeal(v, s) PROVE CleanUp(s, u)'
  <2>1. deal' = [deal EXCEPT ![Main(v)] = [pc |-> "acquire", s |-> s, u |-> u]]
    BY <1>2, <1>d DEF TimerDeal
  <2>2. Main(v) \in Dealers
    BY ThreadNames
  <2>3. deal'[Main(v)] = [pc |-> "acquire", s |-> s, u |-> u]
    BY <1>0, <2>1, <2>2
  <2> QED
    BY <2>2, <2>3 DEF CleanUp
<1> QED
  BY <1>1, <1>2

\* One case of CleanUp each: what the step leaves of it.
LEMMA ReadingComes ==
  ASSUME Typed, Alive, NEW s \in Sessions, NEW u \in Users, userId[s] = u, sock[s] # "new",
         reading[s], sock'[s] # "up", sent'[s] = sent[s]
  PROVE  CleanUp(s, u)'
<1>0. sent \in [Sessions -> 0..MaxMsgs]
  BY DEF Typed, TypeOK
<1>1. CASE ReadError(s)
  BY <1>1, CleanUpBegins
<1>2. CASE ~ReadError(s)
  <2>1. ~ReadTooLong(s) /\ \A x \in Users \cup {NoUser} : ~ReadRequest(s, x)
    BY <1>0 DEF ReadTooLong, ReadRequest
  <2>2. reading'[s]
    BY <1>2, <2>1, SocketChanges
  <2> QED
    BY <2>2 DEF CleanUp
<1> QED
  BY <1>1, <1>2

LEMMA DealComes ==
  ASSUME Typed, Alive, ~MayTimeout, NEW s \in Sessions, NEW u \in Users, usession[u] = s, usession'[u] = s,
         Recorded(u)', NEW t \in Dealers, deal[t].pc \in {"acquire", "check", "delSession"}, deal[t].s = s, deal[t].u = u
  PROVE  CleanUp(s, u)'
<1>1. u # NoUser /\ s # NoSession
  BY NullAssumption
<1>r. <<"check", u>> \notin lost' /\ <<"delSession", u>> \notin lost'
  BY RecordedKept
<1>2. CASE ~Deal(t)
  BY <1>2, DealerMoves DEF CleanUp
<1>3. CASE DealLock(t)
  <2>1. DealGoesTo(t, "check")
    BY <1>1, <1>3 DEF DealLock, NotAcquired
  <2> QED
    BY <2>1, DealGoes DEF Typed, CleanUp
<1>4. CASE DealCheck(t)
  <2>1. DealGoesTo(t, "delSession")
    BY <1>4, <1>r DEF DealCheck, OwnSession, Lose
  <2> QED
    BY <2>1, DealGoes DEF Typed, CleanUp
<1>5. CASE DealDelSession(t)
  BY <1>1, <1>5, <1>r DEF DealDelSession, DelSession, Lose, Typed, TypeOK
<1> QED
  BY <1>2, <1>3, <1>4, <1>5 DEF Deal, DealDelIp, DealClear, DealRelease

LEMMA ExpiredComes ==
  ASSUME Typed, Here, Alive, NEW s \in Sessions, NEW u \in Users, userId[s] = u,
         srv[s] \in Servers, s \in expired[srv[s]]
  PROVE  CleanUp(s, u)'
<1>0. /\ expired \in [Servers -> SUBSET Sessions] /\ srv'[s] = srv[s]
      /\ accepted \in [Servers -> Sessions \cup {NoSession}]
  BY PlaceStays DEF Typed, TypeOK
<1>1. CASE TimerDeal(srv[s], s)
  BY <1>1, CleanUpBegins
<1>2. CASE ~TimerDeal(srv[s], s)
  <2>1. s \in expired'[srv[s]]
    <3>1. CASE CalmStep
      <4>1. ASSUME NEW v \in Servers, NEW r \in Sessions, TimerDeal(v, r) PROVE s \in expired'[srv[s]]
        BY <1>0, <1>2, <4>1 DEF TimerDeal
      <4>2. ASSUME NEW v \in Servers, NEW E \in SUBSET Sessions, OnTimer(v, E) PROVE s \in expired'[srv[s]]
        BY <1>0, <4>2 DEF OnTimer, MainFree
      <4>3. CASE expired' = expired
        BY <4>3
      <4> QED
        BY <3>1, <4>1, <4>2, <4>3
        DEF CalmStep, HandleAccept, InsertSession, HandleOther, HandleUnknown, LoginKeeps, PeerGone,
            PostWaiting, ReadRequest, ReadTooLong, ReadError, WriteDone, WriteError, TimerClose, server
    <3>2. CASE \E t \in Dealers : Deal(t)
      BY <3>2, DealSteps
    <3>3. CASE \E v \in Servers : LoginHandler(v)
      BY <3>3, LoginSteps
    <3>4. CASE (\E k \in kicks : NotifyKickUser(k) \/ KickLost(k)) \/ \E x \in Users : LockExpires(x)
      BY <3>4 DEF NotifyKickUser, KickLost, LockExpires, server
    <3> QED
      BY <3>1, <3>2, <3>3, <3>4, AliveKinds
  <2> QED
    BY <1>0, <2>1 DEF CleanUp
<1> QED
  BY <1>1, <1>2

LEMMA DoomedComes ==
  ASSUME Typed, Alive, NEW s \in Sessions, NEW u \in Users, userId[s] = u, writing[s] = "doomed"
  PROVE  CleanUp(s, u)'
<1>1. queued[s] > 0 /\ queued[s] \in Nat
  BY DEF Typed, TypeOK
<1>2. ~WriteDone(s)
  BY DEF WriteDone
<1>3. Sends(s) => writing'[s] = "doomed"
  BY <1>1 DEF Sends, SendTo
<1>4. CASE WriteError(s)
  BY <1>4, CleanUpBegins
<1>5. CASE ~WriteError(s)
  BY <1>2, <1>3, <1>5, SendChanges DEF CleanUp
<1> QED
  BY <1>4, <1>5

\* The answer to the login goes to a closed connection, or has not been sent yet.
LEMMA AnswerComes ==
  ASSUME Typed, Alive, NEW s \in Sessions, NEW u \in Users, sock[s] = "closed", queued[s] = 0,
         NEW v \in Servers, login[v].pc \in InRedis, Asking(v) = s
  PROVE  CleanUp(s, u)'
<1>0. /\ queued \in [Sessions -> Nat] /\ writing \in [Sessions -> {"no", "started", "doomed"}]
      /\ login \in [Servers -> LoginStates]
  BY DEF Typed, TypeOK, LoginStates
<1>1. CASE Sends(s)
  <2>1. writing'[s] = "doomed"
    BY <1>0, <1>1 DEF Sends, SendTo, NewWrite
  <2> QED
    BY <2>1 DEF CleanUp
<1>2. CASE ~Sends(s)
  <2>1. queued'[s] = 0
    <3>1. writing[s] = "no"
      BY DEF Typed, TypeOK
    <3>2. ~WriteDone(s) /\ ~WriteError(s)
      BY <3>1 DEF WriteDone, WriteError
    <3> QED
      BY <1>2, <3>2, SendChanges
  <2>2. CASE LoginSetMgr(v)
    <3>1. LoginGoesTo(v, "release") /\ logicQ' = logicQ
      BY <2>2 DEF LoginSetMgr
    <3> QED
      BY <2>1, <3>1, LoginGoes DEF Typed, CleanUp, InRedis, Asking
  <2>3. CASE LoginRelease(v)
    <3>1. LoginGoesTo(v, "reply") /\ logicQ' = logicQ
      BY <2>3 DEF LoginRelease
    <3> QED
      BY <2>1, <3>1, LoginGoes DEF Typed, CleanUp, InRedis, Asking
  <2>4. CASE LoginReply(v)
    <3>1. queued' = [queued EXCEPT ![s] = @ + 1]
      BY <2>4 DEF LoginReply, Answer, SendTo
    <3> QED
      BY <1>0, <2>1, <3>1
  <2>5. CASE ~LoginHandler(v)
    <3>1. login'[v] = login[v] /\ logicQ'[v] = logicQ[v]
      BY <2>5, WorkerMoves DEF InRedis
    <3> QED
      BY <2>1, <3>1 DEF CleanUp, Asking
  <2> QED
    BY <2>2, <2>3, <2>4, <2>5
    DEF LoginHandler, LoginLock, LoginGetIp, LoginKickHere, LoginKickThere, LoginKicked, LoginSetIp,
        LoginSetSession, LoginAt, InRedis
<1> QED
  BY <1>1, <1>2

LEMMA CleanUpComesStep ==
  ASSUME Typed, Here, OneRequest, KnownOnce, NotSent, Reads, CleanUpComes, ~MayTimeout, Alive
  PROVE  CleanUpComes'
<1>0. /\ usession' \in [Users -> Sessions \cup {NoSession}]
      /\ sent \in [Sessions -> 0..MaxMsgs] /\ sock \in [Sessions -> {"new", "up", "gone", "closed"}]
      /\ queued \in [Sessions -> Nat] /\ reading \in [Sessions -> BOOLEAN]
  <2>1. TypeOK'
    BY TypeStep DEF Alive
  <2> QED
    BY <2>1 DEF Typed, TypeOK
<1>1. SUFFICES ASSUME NEW u \in Users, NEW s \in Sessions, Recorded(u)',
                      usession'[u] = s, sent'[s] = 1, sock'[s] # "up"
               PROVE  CleanUp(s, u)'
  BY <1>0 DEF CleanUpComes, CleanUp
<1>r. Recorded(u)
  BY <1>1, RecordedKept
<1>2. /\ sent[s] = 1 /\ srv'[s] = srv[s] /\ srv[s] \in Servers /\ sock[s] # "new" /\ s # NoSession
      /\ \/ usession[u] = s
         \/ \E v \in Servers : /\ LoginSetSession(v) /\ LoginUser(v) = u /\ s = Asking(v)
                               /\ Pending(s) /\ ~InMgr(s)
  BY <1>1, RecordedBefore, NullAssumption
<1>3. ASSUME NEW v \in Servers, LoginSetSession(v), s = Asking(v), Pending(s), ~InMgr(s)
      PROVE  CleanUp(s, u)'
  <2>1. queued[s] = 0
    BY <1>0, <1>2, <1>3 DEF NotSent
  <2>2. LoginGoesTo(v, "setMgr") /\ UNCHANGED <<logicQ, queued>>
    BY <1>3 DEF LoginSetSession
  <2>3. login'[v].pc = "setMgr"
    BY <2>2, LoginGoes DEF Typed
  <2> QED
    BY <1>3, <2>1, <2>2, <2>3 DEF CleanUp, InRedis, Asking
<1>4. CASE usession[u] = s
  <2>1. userId[s] = u
    BY <1>2, <1>4 DEF KnownOnce, Known
  <2>2. CASE reading[s]
    BY <1>1, <1>2, <2>1, <2>2, ReadingComes
  <2>3. CASE ~reading[s]
    <3>1. sock[s] = "closed"
      BY <1>0, <1>2, <1>4, <2>3 DEF Reads
    <3>2. CleanUp(s, u)
      BY <1>2, <1>4, <1>r, <3>1 DEF CleanUpComes
    <3>3. ASSUME NEW t \in Dealers, deal[t].pc \in {"acquire", "check", "delSession"},
               deal[t].s = s, deal[t].u = u
          PROVE  CleanUp(s, u)'
      BY <1>1, <1>4, <3>3, DealComes
    <3>4. ASSUME s \in expired[srv[s]] PROVE CleanUp(s, u)'
      BY <1>2, <2>1, <3>4, ExpiredComes
    <3>5. ASSUME writing[s] = "doomed" PROVE CleanUp(s, u)'
      BY <2>1, <3>5, DoomedComes
    <3>6. ASSUME queued[s] = 0, NEW v \in Servers, login[v].pc \in InRedis, Asking(v) = s
          PROVE  CleanUp(s, u)'
      BY <3>1, <3>6, AnswerComes
    <3> QED
      BY <2>3, <3>2, <3>3, <3>4, <3>5, <3>6 DEF CleanUp
  <2> QED
    BY <2>2, <2>3
<1> QED
  BY <1>2, <1>3, <1>4

-----------------------------------------------------------------------------
(* What is recorded is alive when all is settled                           *)

Settling == crashes = 0 => /\ OneRequest /\ KnownOnce /\ UserIdSet /\ NotSent /\ Reads
                           /\ KickAwaited /\ MgrKnows /\ AskingInTable /\ CurrentInTable
                           /\ CleanUpComes

LEMMA InitSettling == Init => Settling
<1> SUFFICES ASSUME Init PROVE Settling
  OBVIOUS
<1>1. \A s \in Sessions : ~Pending(s) /\ sent[s] = 0 /\ queued[s] = 0
  BY DEF Init, Pending, Waits, Posts, Items
<1>2. /\ \A u \in Users : usession[u] = NoSession
      /\ \A v \in Servers, u \in Users : userMgr[v][u] = NoSession
      /\ \A v \in Servers : login[v].pc = "idle"
      /\ kicks = {}
  BY DEF Init, AtRest
<1>3. OneRequest /\ KnownOnce /\ NotSent /\ Reads /\ AskingInTable
  BY <1>1, <1>2, NullAssumption DEF OneRequest, KnownOnce, NotSent, Reads, AskingInTable
<1>4. UserIdSet /\ KickAwaited /\ MgrKnows /\ CurrentInTable /\ CleanUpComes
  BY <1>2 DEF UserIdSet, KickAwaited, MgrKnows, CurrentInTable, CleanUpComes
<1> QED
  BY <1>3, <1>4 DEF Settling

LEMMA SettlingStep == ~MayTimeout /\ Presence /\ Settling /\ [Next]_vars => Settling'
<1>1. ASSUME ~MayTimeout, Presence, Settling, Next, crashes' = 0 PROVE Settling'
  <2>1. crashes = 0 /\ Alive
    <3>1. crashes \in Nat /\ crashes' \in Nat
      BY <1>1, TypeStep, ParameterAssumption DEF Presence, Typed, TypeOK
    <3>2. ASSUME NEW v \in Servers, CrashRestart(v) PROVE crashes' = crashes + 1
      BY <3>2 DEF CrashRestart
    <3>3. crashes' = crashes \/ \E v \in Servers : CrashRestart(v)
      <4>1. CASE CalmStep
        BY <1>1, <4>1, CalmKeeps DEF Presence, Typed
      <4>2. CASE \E t \in Dealers : Deal(t)
        BY <4>2, DealSteps
      <4>3. CASE \E v \in Servers : LoginHandler(v)
        BY <1>1, <4>3, LoginSteps DEF Presence
      <4>4. CASE (\E k \in kicks : NotifyKickUser(k) \/ KickLost(k)) \/ \E x \in Users : LockExpires(x)
        BY <4>4 DEF NotifyKickUser, KickLost, LockExpires
      <4> QED
        BY <1>1, <4>1, <4>2, <4>3, <4>4, StepKinds
    <3> QED
      BY <1>1, <3>1, <3>2, <3>3 DEF Alive
  <2>2. /\ Typed /\ Here /\ LoginStage
        /\ OneRequest /\ KnownOnce /\ UserIdSet /\ NotSent /\ Reads
        /\ KickAwaited /\ MgrKnows /\ AskingInTable /\ CurrentInTable /\ CleanUpComes
    BY <1>1, <2>1 DEF Presence, Settling
  <2>3. OneRequest' /\ KnownOnce' /\ UserIdSet' /\ NotSent' /\ Reads'
    BY <2>1, <2>2, OneRequestStep, KnownOnceStep, UserIdSetStep, NotSentStep, ReadsStep
  <2>4. KickAwaited' /\ MgrKnows' /\ AskingInTable' /\ CurrentInTable'
    BY <2>1, <2>2, KickAwaitedStep, MgrKnowsStep, AskingInTableStep, CurrentInTableStep
  <2>5. CleanUpComes'
    BY <1>1, <2>1, <2>2, CleanUpComesStep
  <2> QED
    BY <2>3, <2>4, <2>5 DEF Settling
<1>2. ASSUME Settling, UNCHANGED vars PROVE Settling'
  <2>1. /\ UNCHANGED <<srv, sock, reading, heard, userId, queued, writing, sent>>
        /\ UNCHANGED <<sessions, accepted, expired, userMgr, logicQ, login, posting, deal>>
        /\ UNCHANGED <<kicks, kickFailed, usession, lost, crashes>>
    BY <1>2 DEF vars, connection, server, rpc, redis
  <2>2. CASE crashes = 0
    <3>1. OneRequest' /\ KnownOnce' /\ UserIdSet' /\ NotSent' /\ Reads'
      BY <1>2, <2>1, <2>2
      DEF Settling, OneRequest, KnownOnce, UserIdSet, NotSent, Reads, Pending, Waits, Posts, Known,
          Serves, Asking, LoginUser, InMgr
    <3>2. KickAwaited' /\ MgrKnows' /\ AskingInTable' /\ CurrentInTable' /\ CleanUpComes'
      BY <1>2, <2>1, <2>2
      DEF Settling, KickAwaited, KickOf, MgrKnows, AskingInTable, CurrentInTable, CleanUpComes, CleanUp,
          Replaces, InTable, Pending, Waits, Posts, Asking, LoginUser, InMgr, Recorded, Answered
    <3> QED
      BY <3>1, <3>2 DEF Settling
  <2> QED
    BY <2>1, <2>2 DEF Settling
<1> QED
  BY <1>1, <1>2 DEF Settling

\* A broken connection does not stay the user's presence (csession.cc:213-247), while
\* the lock can be had: once all is settled, the connection Redis names is open, UserMgr
\* knows it, and it is in the table unless a kick failed, if its login was its only
\* request and no command about the user's usession_ was lost.
THEOREM PresenceAlive == ASSUME ~MayTimeout PROVE Spec => []PresenceSettles
<1>1. Presence /\ Settling => PresenceSettles
  <2> SUFFICES ASSUME Presence, Settling PROVE PresenceSettles
    OBVIOUS
  <2>0. \A u \in Users : usession[u] = NoSession \/ usession[u] \in Sessions
    BY DEF Presence, Typed, TypeOK
  <2> SUFFICES ASSUME NEW u \in Users, NEW s \in Sessions, s = usession[u],
                      Settled, crashes = 0, Recorded(u), sent[s] = 1
               PROVE  /\ sock[s] = "up" /\ userMgr[srv[s]][u] = s
                      /\ ~kickFailed => s \in sessions[srv[s]]
    BY <2>0 DEF PresenceSettles, Recorded
  <2>1. /\ OneRequest /\ KnownOnce /\ UserIdSet /\ NotSent /\ Reads
        /\ KickAwaited /\ MgrKnows /\ AskingInTable /\ CurrentInTable /\ CleanUpComes
    BY DEF Settling
  <2>2. \A v \in Servers : login[v].pc = "idle"
    BY DEF Presence, Typed, Busy, Settled
  <2>3. srv[s] \in Servers /\ s # NoSession
    BY RecordedIsOld, NullAssumption DEF Presence
  <2>4. ~CleanUp(s, u) \/ sock[s] = "up"
    BY <2>2, <2>3 DEF CleanUp, InRedis, Settled, NotDealing
  <2>5. sock[s] = "up"
    BY <2>1, <2>3, <2>4 DEF CleanUpComes
  <2>6. userMgr[srv[s]][u] = s
    BY <2>1, <2>2, <2>3 DEF MgrKnows
  <2>7. ~kickFailed => s \in sessions[srv[s]]
    BY <2>1, <2>2, <2>3, <2>5 DEF CurrentInTable, InTable, Replaces
  <2> QED
    BY <2>5, <2>6, <2>7
<1>2. Init => Presence /\ Settling
  BY InitTyped, InitHere, InitLockHeld, InitPresence, InitSettling DEF Presence
<1>3. Presence /\ Settling /\ [Next]_vars => (Presence /\ Settling)'
  BY PresenceStep, SettlingStep
<1> QED
  BY <1>1, <1>2, <1>3, PTL DEF Spec
=============================================================================
