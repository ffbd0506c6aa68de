--------------------------- MODULE ConnPoolProofs ---------------------------
(***************************************************************************)
(* Theorems of ConnPool, for any threads, nesting and pool size.           *)
(***************************************************************************)
EXTENDS ConnPool, FiniteSetTheorems, TLAPS

USE PoolAssumption

Chk == [pc : {"none", "rest", "sweep", "probe", "reconnect"}, left : Nat,
        conn : Conns \cup {NoConn}, checked : SUBSET Conns]

\* The check thread has a connection exactly while it probes; only MySQL's remembers
\* what it has checked.
Probing ==
  /\ chk.pc = "probe" => chk.conn \in Conns
  /\ chk.pc # "probe" => chk.conn = NoConn
  /\ kind # "mysql" => chk.checked = {}

Typed == TypeOK /\ Probing

LEMMA NoConnIsNone == NoConn \notin Conns
  BY DEF NoConn, Conns

\* A sequence without repetitions, and its elements.
Distinct(s) == \A i, j \in DOMAIN s : s[i] = s[j] => i = j
Elems(s)    == {s[i] : i \in DOMAIN s}

LEMMA Dequeue ==
  ASSUME NEW S, NEW s \in Seq(S), s # <<>>
  PROVE  /\ Head(s) \in S /\ Head(s) \in Elems(s) /\ Tail(s) \in Seq(S)
         /\ Len(s) \in Nat \ {0} /\ Len(Tail(s)) = Len(s) - 1
         /\ Distinct(s) => Distinct(Tail(s)) /\ Elems(Tail(s)) = Elems(s) \ {Head(s)}
<1>1. /\ Len(s) \in Nat \ {0} /\ DOMAIN s = 1..Len(s) /\ Head(s) = s[1] /\ Tail(s) \in Seq(S)
      /\ DOMAIN Tail(s) = 1..(Len(s) - 1) /\ Len(Tail(s)) = Len(s) - 1
      /\ \A i \in 1..(Len(s) - 1) : Tail(s)[i] = s[i + 1]
  OBVIOUS
<1>2. Head(s) \in S /\ Head(s) \in Elems(s)
  BY <1>1 DEF Elems
<1>3. ASSUME Distinct(s)
      PROVE  Distinct(Tail(s)) /\ Elems(Tail(s)) = Elems(s) \ {Head(s)}
  <2>1. Distinct(Tail(s))
    BY <1>1, <1>3 DEF Distinct
  <2>2. ASSUME NEW x \in Elems(Tail(s))
        PROVE  x \in Elems(s) \ {Head(s)}
    BY <1>1, <1>3 DEF Distinct, Elems
  <2>3. ASSUME NEW x \in Elems(s) \ {Head(s)}
        PROVE  x \in Elems(Tail(s))
    <3>1. PICK i \in 1..Len(s) : x = s[i]
      BY <1>1 DEF Elems
    <3>2. i # 1 /\ i - 1 \in 1..(Len(s) - 1) /\ i = (i - 1) + 1
      BY <1>1, <2>3, <3>1
    <3>3. x = Tail(s)[i - 1] /\ i - 1 \in DOMAIN Tail(s)
      BY <1>1, <3>1, <3>2
    <3> QED
      BY <3>3 DEF Elems
  <2> QED
    BY <2>1, <2>2, <2>3
<1> QED
  BY <1>1, <1>2, <1>3

LEMMA Enqueue ==
  ASSUME NEW S, NEW s \in Seq(S), NEW x \in S
  PROVE  /\ Append(s, x) \in Seq(S) /\ Len(s) \in Nat /\ Len(Append(s, x)) = Len(s) + 1
         /\ Elems(Append(s, x)) = Elems(s) \cup {x}
         /\ Distinct(s) /\ x \notin Elems(s) => Distinct(Append(s, x))
<1> DEFINE t == Append(s, x)
<1>1. /\ Len(s) \in Nat /\ DOMAIN s = 1..Len(s) /\ t \in Seq(S) /\ Len(t) = Len(s) + 1
      /\ DOMAIN t = 1..(Len(s) + 1) /\ t[Len(s) + 1] = x /\ \A i \in 1..Len(s) : t[i] = s[i]
  OBVIOUS
<1> HIDE DEF t
<1>2. Elems(t) = Elems(s) \cup {x}
  <2>1. ASSUME NEW y \in Elems(t)
        PROVE  y \in Elems(s) \cup {x}
    BY <1>1 DEF Elems
  <2>2. ASSUME NEW y \in Elems(s) \cup {x}
        PROVE  y \in Elems(t)
    BY <1>1 DEF Elems
  <2> QED
    BY <2>1, <2>2
<1>3. Distinct(s) /\ x \notin Elems(s) => Distinct(t)
  BY <1>1 DEF Distinct, Elems
<1> QED
  BY <1>1, <1>2, <1>3 DEF t
-----------------------------------------------------------------------------
(* Types *)

\* What a notification leaves of pc.
PcTyped == pc \in [Users -> {"run", "sleepy", "asleep", "woken"}]

LEMMA NotifyTyped ==
  ASSUME PcTyped, pc' = pc \/ pc' \in NotifyOne(pc) \/ pc' = NotifyAll(pc)
  PROVE  PcTyped'
  BY DEF PcTyped, NotifyOne, NotifyAll

LEMMA PushTyped ==
  ASSUME Typed, NEW c \in Conns, Push(c)
  PROVE  free' \in Seq(Conns) /\ PcTyped'
<1>1. PcTyped /\ free \in Seq(Conns)
  BY DEF Typed, TypeOK, PcTyped
<1> QED
  BY <1>1, NotifyTyped, Enqueue DEF Push

LEMMA InitTyped == Init => Typed
<1> SUFFICES ASSUME Init
             PROVE  Typed
  OBVIOUS
<1>1. size \in 0..PoolSize /\ chk \in {Rest, [Rest EXCEPT !.pc = "none"]} /\ stop \in BOOLEAN
  <2>1. CASE InitRedis
    BY <2>1 DEF InitRedis
  <2>2. CASE InitMySql
    BY <2>2 DEF InitMySql
  <2>3. CASE InitRpc
    <3>1. PoolSize \in 0..PoolSize
      OBVIOUS
    <3> QED
      BY <2>3, <3>1 DEF InitRpc
  <2> QED
    BY <2>1, <2>2, <2>3 DEF Init
<1>2. free \in Seq(Conns)
  <2>1. \A i \in 1..size : i \in Conns
    BY <1>1 DEF Conns
  <2> QED
    BY <1>1, <2>1 DEF Init
<1>3. chk \in Chk /\ chk.conn = NoConn /\ chk.checked = {} /\ chk.pc # "probe"
  BY <1>1 DEF Rest, Chk
<1>4. /\ kind \in Kinds /\ held \in [Users -> SUBSET Conns] /\ up \in BOOLEAN
      /\ pc \in [Users -> {"run", "sleepy", "asleep", "woken"}]
      /\ broken \in SUBSET Conns /\ fail \in Nat
  BY DEF Init
<1> QED
  BY <1>1, <1>2, <1>3, <1>4 DEF Typed, TypeOK, Probing, Chk

LEMMA LiveTyped ==
  ASSUME Typed
  PROVE  Free \in SUBSET Conns /\ Held \in SUBSET Conns /\ Probed \in SUBSET Conns
         /\ Live \in SUBSET Conns
<1>1. Free \in SUBSET Conns
  BY DEF Free, Typed, TypeOK
<1>2. Held \in SUBSET Conns
  BY DEF Held, Typed, TypeOK
<1>3. Probed \in SUBSET Conns
  BY DEF Probed, Typed, TypeOK
<1> QED
  BY <1>1, <1>2, <1>3 DEF Live

LEMMA NextTyped == Typed /\ [Next]_vars => Typed'
<1> SUFFICES ASSUME Typed, [Next]_vars
             PROVE  Typed'
  OBVIOUS
<1>0. /\ kind \in Kinds /\ size \in 0..PoolSize /\ free \in Seq(Conns) /\ held \in [Users -> SUBSET Conns]
      /\ PcTyped /\ stop \in BOOLEAN /\ up \in BOOLEAN /\ broken \in SUBSET Conns /\ fail \in Nat
      /\ chk \in Chk /\ Probing
  BY DEF Typed, TypeOK, PcTyped, Chk
<1>t. /\ kind' \in Kinds /\ size' \in 0..PoolSize /\ free' \in Seq(Conns) /\ held' \in [Users -> SUBSET Conns]
      /\ PcTyped' /\ stop' \in BOOLEAN /\ up' \in BOOLEAN /\ broken' \in SUBSET Conns /\ fail' \in Nat
      /\ chk' \in Chk /\ Probing'
      => Typed'
  BY DEF Typed, TypeOK, PcTyped, Chk
<1>l. Live \in SUBSET Conns
  BY LiveTyped
<1>1. ASSUME NEW u \in Users, GetNull(u) \/ FindEmpty(u) \/ Sleep(u)
      PROVE  Typed'
  <2>1. PcTyped' /\ UNCHANGED <<conf, env, free, held, stop, chk, fail>>
    BY <1>0, <1>1 DEF GetNull, FindEmpty, Sleep, PcTyped
  <2> QED
    BY <1>0, <1>t, <2>1 DEF conf, env, Probing
<1>2. ASSUME NEW u \in Users, Take(u)
      PROVE  Typed'
  <2>1. PcTyped' /\ UNCHANGED <<conf, env, stop, chk, fail>>
    BY <1>0, <1>2 DEF Take, PcTyped
  <2>2. free' \in Seq(Conns) /\ held' \in [Users -> SUBSET Conns]
    BY <1>0, <1>2, Dequeue DEF Take
  <2> QED
    BY <1>0, <1>t, <2>1, <2>2 DEF conf, env, Probing
<1>3. ASSUME NEW u \in Users, NEW c \in Conns, Return(u, c)
      PROVE  Typed'
  <2>1. free' \in Seq(Conns) /\ PcTyped'
    <3>1. CASE stop
      BY <1>0, <1>3, <3>1 DEF Return, PcTyped
    <3>2. CASE ~stop
      BY <1>3, <3>2, PushTyped DEF Return
    <3> QED
      BY <3>1, <3>2
  <2>2. held' \in [Users -> SUBSET Conns] /\ UNCHANGED <<conf, env, stop, chk, fail>>
    BY <1>0, <1>3 DEF Return
  <2> QED
    BY <1>0, <1>t, <2>1, <2>2 DEF conf, env, Probing
<1>4. CASE Close
  <2>1. PcTyped' /\ stop' = TRUE /\ UNCHANGED <<conf, env, free, held, chk, fail>>
    BY <1>0, <1>4, NotifyTyped DEF Close
  <2> QED
    BY <1>0, <1>t, <2>1 DEF conf, env, Probing
<1>5. CASE StartSweep \/ EndSweep \/ EndReconnect
  <2>1. Len(free) \in Nat
    BY <1>0
  <2>2. chk' \in Chk /\ Probing'
    <3>1. CASE StartSweep
      BY <1>0, <2>1, <3>1 DEF StartSweep, Probing, Chk, conf
    <3>2. CASE EndSweep
      BY <1>0, <3>2 DEF EndSweep, AfterSweep, Probing, Chk, conf
    <3>3. CASE EndReconnect
      BY <1>0, <3>3 DEF EndReconnect, AfterReconnect, Rest, Probing, Chk, conf
    <3> QED
      BY <1>5, <3>1, <3>2, <3>3
  <2>3. UNCHANGED <<conf, env, free, held, pc, stop, fail>>
    BY <1>5 DEF StartSweep, EndSweep, EndReconnect
  <2> QED
    BY <1>0, <1>t, <2>2, <2>3 DEF conf, env, PcTyped
<1>6. CASE PopProbe
  <2>1. free' \in Seq(Conns) /\ Head(free) \in Conns
    BY <1>0, <1>6, Dequeue DEF PopProbe
  <2>2. chk' \in Chk /\ Probing'
    <3>1. chk' = [chk EXCEPT !.pc = "probe", !.left = chk.left - 1, !.conn = Head(free)] /\ chk.left > 0
      BY <1>6 DEF PopProbe
    <3>2. chk.left - 1 \in Nat
      BY <1>0, <3>1 DEF Chk
    <3>3. chk' \in Chk
      BY <1>0, <2>1, <3>1, <3>2 DEF Chk
    <3>4. chk'.pc = "probe" /\ chk'.conn = Head(free) /\ chk'.checked = chk.checked /\ kind' = kind
      BY <1>0, <1>6, <3>1 DEF Chk, PopProbe, conf
    <3> QED
      BY <1>0, <2>1, <3>3, <3>4 DEF Probing
  <2>3. UNCHANGED <<conf, env, held, pc, stop, fail>>
    BY <1>6 DEF PopProbe
  <2> QED
    BY <1>0, <1>t, <2>1, <2>2, <2>3 DEF conf, env, PcTyped
<1>7. CASE ProbeFails \/ ForgetRecent
  <2>1. chk' \in Chk /\ Probing'
    BY <1>0, <1>7 DEF ProbeFails, ForgetRecent, Probing, Chk, conf
  <2>2. fail' \in Nat /\ UNCHANGED <<conf, env, free, held, pc, stop>>
    BY <1>0, <1>7 DEF ProbeFails, ForgetRecent
  <2> QED
    BY <1>0, <1>t, <2>1, <2>2 DEF conf, env, PcTyped
<1>8. CASE PingOk \/ SelectOk
  <2>1. chk.conn \in Conns
    BY <1>0, <1>8 DEF PingOk, SelectOk, Probing
  <2>2. free' \in Seq(Conns) /\ PcTyped'
    <3>1. CASE Push(chk.conn)
      BY <2>1, <3>1, PushTyped
    <3>2. CASE UNCHANGED <<free, pc>>
      BY <1>0, <3>2 DEF PcTyped
    <3> QED
      BY <1>8, <3>1, <3>2 DEF PingOk, SelectOk
  <2>3. chk' \in Chk /\ Probing'
    <3>1. CASE PingOk
      BY <1>0, <3>1 DEF PingOk, Probing, Chk, conf
    <3>2. CASE SelectOk
      <4>1. chk' = [chk EXCEPT !.pc = "sweep", !.conn = NoConn, !.checked = chk.checked \cup {chk.conn}]
        BY <3>2 DEF SelectOk
      <4>2. chk.checked \cup {chk.conn} \in SUBSET Conns
        BY <1>0, <2>1 DEF Chk
      <4>3. chk' \in Chk
        BY <1>0, <4>1, <4>2 DEF Chk
      <4>4. chk'.pc = "sweep" /\ chk'.conn = NoConn /\ kind' = kind /\ kind = "mysql"
        BY <1>0, <3>2, <4>1 DEF Chk, SelectOk, conf
      <4> QED
        BY <4>3, <4>4 DEF Probing
    <3> QED
      BY <1>8, <3>1, <3>2
  <2>4. UNCHANGED <<conf, env, held, stop, fail>>
    BY <1>8 DEF PingOk, SelectOk
  <2> QED
    BY <1>0, <1>t, <2>2, <2>3, <2>4 DEF conf, env
<1>9. ASSUME NEW c \in Conns, Reconnect(c)
      PROVE  Typed'
  <2>1. free' \in Seq(Conns) /\ PcTyped'
    <3>1. CASE Push(c)
      BY <3>1, PushTyped
    <3>2. CASE free' = Append(free, c) /\ pc' = pc
      BY <1>0, <3>2, Enqueue DEF PcTyped
    <3>3. CASE UNCHANGED <<free, pc>>
      BY <1>0, <3>3 DEF PcTyped
    <3> QED
      BY <1>9, <3>1, <3>2, <3>3 DEF Reconnect, Replace
  <2>2. broken' \in SUBSET Conns /\ fail' \in Nat /\ UNCHANGED <<conf, up, held, stop, chk>>
    BY <1>0, <1>9 DEF Reconnect
  <2> QED
    BY <1>0, <1>t, <2>1, <2>2 DEF conf, Probing
<1>10. ASSUME Outage \/ Recover \/ \E c \in Conns : Drop(c)
       PROVE  Typed'
  <2>1. /\ up' \in BOOLEAN /\ broken' \in SUBSET Conns
        /\ UNCHANGED <<conf, free, held, pc, stop, chk, fail>>
    BY <1>0, <1>l, <1>10 DEF Outage, Recover, Drop
  <2> QED
    BY <1>0, <1>t, <2>1 DEF conf, PcTyped, Probing
<1>11. CASE UNCHANGED vars
  BY <1>0, <1>t, <1>11 DEF vars, conf, env, PcTyped, Probing
<1> QED
  BY <1>1, <1>2, <1>3, <1>4, <1>5, <1>6, <1>7, <1>8, <1>9, <1>10, <1>11 DEF Next, User, Check, Server

\* The queue holds connections, and the check thread has one while it probes and at
\* no other time.
THEOREM TypeCorrect == Spec => [](TypeOK /\ Probing)
  BY InitTyped, NextTyped, PTL DEF Spec, Typed
-----------------------------------------------------------------------------
(* One place, and none lost *)

\* Free and Held as the proofs use them, now and after a step.
LEMMA FreeIs == Free = Elems(free) /\ Free' = Elems(free')
  BY DEF Free, Elems

LEMMA HeldIs ==
  /\ \A c : c \in Held <=> \E u \in Users : c \in held[u]
  /\ \A c : c \in Held' <=> \E u \in Users : c \in held'[u]
  BY DEF Held

LEMMA OnePlaceIs ==
  /\ OnePlace <=> /\ Distinct(free) /\ Free \cap Held = {} /\ chk.conn \notin Free \cup Held
                  /\ \A u, v \in Users : u # v => held[u] \cap held[v] = {}
  /\ OnePlace' <=> /\ Distinct(free') /\ Free' \cap Held' = {} /\ chk'.conn \notin Free' \cup Held'
                   /\ \A u, v \in Users : u # v => held'[u] \cap held'[v] = {}
  BY DEF OnePlace, Distinct

\* A connection in the hands of nobody goes to the queue.
LEMMA Pushed ==
  ASSUME Typed, OnePlace, NEW c \in Conns, c \notin Free,
         free' = Append(free, c), c \notin Held', Held' \subseteq Held,
         \A u, v \in Users : u # v => held'[u] \cap held'[v] = {},
         chk'.conn = NoConn \/ (chk' = chk /\ c # chk.conn)
  PROVE  OnePlace' /\ Free' = Free \cup {c}
<1>0. free \in Seq(Conns)
  BY DEF Typed, TypeOK
<1>1. Distinct(free') /\ Free' = Free \cup {c}
  BY <1>0, Enqueue, FreeIs, OnePlaceIs
<1>2. NoConn \notin Free' \cup Held'
  BY <1>1, LiveTyped, NoConnIsNone
<1> QED
  BY <1>1, <1>2, OnePlaceIs

\* What each kind of step does to the connections.
LEMMA TakeMoves ==
  ASSUME Typed, OnePlace, NEW u \in Users, Take(u)
  PROVE  OnePlace' /\ Live' = Live
<1> DEFINE c == Head(free)
<1>1. /\ free \in Seq(Conns) /\ free # <<>> /\ free' = Tail(free) /\ chk' = chk
      /\ \A v \in Users : held'[v] = IF v = u THEN held[u] \cup {c} ELSE held[v]
  BY DEF Take, Typed, TypeOK
<1>2. Distinct(free') /\ Free' = Free \ {c} /\ c \in Free
  BY <1>1, Dequeue, FreeIs, OnePlaceIs
<1> HIDE DEF c
<1>3. Held' = Held \cup {c}
  BY <1>1, HeldIs
<1>4. \A v, w \in Users : v # w => held'[v] \cap held'[w] = {}
  BY <1>1, <1>2, HeldIs, OnePlaceIs
<1>5. Free' \cap Held' = {} /\ chk'.conn \notin Free' \cup Held'
  BY <1>1, <1>2, <1>3, OnePlaceIs
<1>6. Live' = Live
  BY <1>1, <1>2, <1>3 DEF Live, Probed
<1> QED
  BY <1>2, <1>4, <1>5, <1>6, OnePlaceIs

LEMMA ReturnMoves ==
  ASSUME Typed, OnePlace, NEW u \in Users, NEW c \in Conns, Return(u, c)
  PROVE  OnePlace' /\ (~stop => Live' = Live)
<1>1. /\ c \in held[u] /\ chk' = chk
      /\ \A v \in Users : held'[v] = IF v = u THEN held[u] \ {c} ELSE held[v]
  BY DEF Return, Typed, TypeOK
<1>2. Held' = Held \ {c} /\ c \in Held
  <2>1. \A v \in Users : v # u => c \notin held[v]
    BY <1>1, OnePlaceIs
  <2> QED
    BY <1>1, <2>1, HeldIs
<1>3. \A v, w \in Users : v # w => held'[v] \cap held'[w] = {}
  BY <1>1, OnePlaceIs
<1>4. CASE stop
  <2>1. Free' = Free /\ free' = free
    BY <1>4 DEF Return, Free
  <2> QED
    BY <1>1, <1>2, <1>3, <1>4, <2>1, OnePlaceIs
<1>5. CASE ~stop
  <2>1. free' = Append(free, c)
    BY <1>5 DEF Return, Push
  <2>2. c \notin Free /\ c # chk.conn
    BY <1>2, OnePlaceIs
  <2>3. OnePlace' /\ Free' = Free \cup {c}
    BY <1>1, <1>2, <1>3, <2>1, <2>2, Pushed
  <2>4. Live' = Live
    BY <1>1, <1>2, <2>3 DEF Live, Probed
  <2> QED
    BY <2>3, <2>4
<1> QED
  BY <1>4, <1>5

LEMMA PopMoves ==
  ASSUME Typed, OnePlace, PopProbe
  PROVE  OnePlace' /\ Live' = Live
<1> DEFINE c == Head(free)
<1>1. /\ free \in Seq(Conns) /\ free # <<>> /\ free' = Tail(free) /\ held' = held
      /\ chk'.conn = c /\ chk.conn = NoConn
  BY DEF PopProbe, Typed, TypeOK, Probing
<1>2. Distinct(free') /\ Free' = Free \ {c} /\ c \in Free
  BY <1>1, Dequeue, FreeIs, OnePlaceIs
<1> HIDE DEF c
<1>3. Held' = Held /\ c # NoConn
  BY <1>1, <1>2, LiveTyped, NoConnIsNone DEF Held
<1>4. OnePlace'
  BY <1>1, <1>2, <1>3, OnePlaceIs
<1>5. Live' = Live
  BY <1>1, <1>2, <1>3 DEF Live, Probed
<1> QED
  BY <1>4, <1>5

\* A dead connection, or one that MySQL's round forgets.
LEMMA ProbeLost ==
  ASSUME Typed, OnePlace, ProbeFails \/ ForgetRecent
  PROVE  OnePlace' /\ Live' = Live \ {chk.conn} /\ chk.conn \in Live
<1>1. /\ chk.conn \in Conns /\ chk'.conn = NoConn /\ free' = free /\ held' = held
  BY DEF ProbeFails, ForgetRecent, Typed, TypeOK, Probing
<1>2. Free' = Free /\ Held' = Held /\ chk'.conn \notin Free \cup Held
  BY <1>1, LiveTyped, NoConnIsNone DEF Free, Held
<1>3. chk.conn \notin Free \cup Held /\ chk.conn # NoConn
  BY <1>1, NoConnIsNone, OnePlaceIs
<1>4. OnePlace'
  BY <1>1, <1>2, OnePlaceIs
<1>5. Live' = Live \ {chk.conn} /\ chk.conn \in Live
  BY <1>1, <1>2, <1>3 DEF Live, Probed
<1> QED
  BY <1>4, <1>5

LEMMA ProbeBack ==
  ASSUME Typed, OnePlace, PingOk \/ SelectOk
  PROVE  OnePlace' /\ (~stop => Live' = Live)
<1> DEFINE c == chk.conn
<1>1. /\ c \in Conns /\ chk'.conn = NoConn /\ held' = held
      /\ c \notin Free \cup Held
  BY OnePlaceIs DEF PingOk, SelectOk, Typed, TypeOK, Probing
<1>2. Held' = Held /\ \A v, w \in Users : v # w => held'[v] \cap held'[w] = {}
  BY <1>1, OnePlaceIs DEF Held
<1>3. CASE UNCHANGED free /\ stop
  <2>1. Free' = Free /\ chk'.conn \notin Free \cup Held
    BY <1>1, <1>3, LiveTyped, NoConnIsNone DEF Free
  <2> QED
    BY <1>2, <1>3, <2>1, OnePlaceIs
<1>4. CASE free' = Append(free, c)
  <2> HIDE DEF c
  <2>1. OnePlace' /\ Free' = Free \cup {c}
    BY <1>1, <1>2, <1>4, Pushed
  <2>2. Live' = Live
    BY <1>1, <1>2, <2>1, NoConnIsNone DEF Live, Probed, c
  <2> QED
    BY <2>1, <2>2
<1> QED
  BY <1>3, <1>4 DEF PingOk, SelectOk, Push

LEMMA ReconnectMoves ==
  ASSUME Typed, OnePlace, NEW c \in Conns, Reconnect(c)
  PROVE  OnePlace' /\ c \notin Live /\ (~stop => Live' = Live \cup {c})
<1>1. c \notin Live /\ chk' = chk /\ held' = held /\ chk.conn = NoConn
  BY DEF Reconnect, Typed, Probing
<1>2. /\ Held' = Held /\ c \notin Free \cup Held /\ c # NoConn
      /\ \A v, w \in Users : v # w => held'[v] \cap held'[w] = {}
  BY <1>1, OnePlaceIs, NoConnIsNone DEF Held, Live
<1>3. CASE UNCHANGED free /\ stop
  <2>1. Free' = Free
    BY <1>3 DEF Free
  <2> QED
    BY <1>1, <1>2, <1>3, <2>1, OnePlaceIs
<1>4. CASE free' = Append(free, c)
  <2>1. OnePlace' /\ Free' = Free \cup {c}
    BY <1>1, <1>2, <1>4, Pushed
  <2>2. Live' = Live \cup {c}
    BY <1>1, <1>2, <2>1 DEF Live, Probed
  <2> QED
    BY <1>1, <2>1, <2>2
<1> QED
  BY <1>3, <1>4 DEF Reconnect, Replace, Push

\* The steps that move no connection.
Still == \/ \E u \in Users : GetNull(u) \/ FindEmpty(u) \/ Sleep(u)
         \/ Close \/ StartSweep \/ EndSweep \/ EndReconnect \/ Server \/ UNCHANGED vars

LEMMA StillMoves ==
  ASSUME Typed, OnePlace, Still
  PROVE  OnePlace' /\ Live' = Live /\ UNCHANGED <<kind, size, fail, free, held>> /\ (stop => stop')
<1>1. UNCHANGED <<kind, size, fail, free, held>> /\ (stop => stop') /\ chk'.conn = chk.conn
  <2>1. CASE UNCHANGED <<kind, size, fail, free, held, stop, chk>>
    BY <2>1
  <2>2. CASE Close
    BY <2>2 DEF Close, conf
  <2>3. CASE StartSweep \/ EndSweep \/ EndReconnect
    BY <2>3 DEF StartSweep, EndSweep, EndReconnect, Rest, conf, Typed, TypeOK, Probing
  <2> QED
    BY <2>1, <2>2, <2>3 DEF Still, GetNull, FindEmpty, Sleep, Server, Outage, Recover, Drop, conf, vars
<1>2. Free' = Free /\ Held' = Held /\ Probed' = Probed
  BY <1>1 DEF Free, Held, Probed
<1> QED
  BY <1>1, <1>2, OnePlaceIs DEF Live

\* The steps, by what they do to the connections.
LEMMA NextIs ==
  [Next]_vars => \/ Still
                 \/ \E u \in Users : Take(u) \/ \E c \in Conns : Return(u, c)
                 \/ PopProbe \/ ProbeFails \/ ForgetRecent \/ PingOk \/ SelectOk
                 \/ \E c \in Conns : Reconnect(c)
  BY DEF Next, User, Check, Still

LEMMA InitPlaces == Init => OnePlace
<1> SUFFICES ASSUME Init
             PROVE  OnePlace
  OBVIOUS
<1>1. chk.conn = NoConn /\ free = [i \in 1..size |-> i] /\ size \in 0..PoolSize
  BY DEF Init, InitRedis, InitMySql, InitRpc, Rest
<1>2. Held = {} /\ NoConn \notin Free
  BY <1>1 DEF Init, Held, Free, NoConn
<1> QED
  BY <1>1, <1>2 DEF OnePlace, Init

LEMMA NextPlaces == Typed /\ OnePlace /\ [Next]_vars => OnePlace'
  BY NextIs, StillMoves, TakeMoves, ReturnMoves, PopMoves, ProbeLost, ProbeBack, ReconnectMoves

\* No connection is in two places: no two requests share a socket.
THEOREM OnePlaceEach == Spec => []OnePlace
  BY InitPlaces, NextPlaces, TypeCorrect, PTL DEF Spec, Typed
-----------------------------------------------------------------------------
LEMMA ConnsFinite ==
  ASSUME Typed
  PROVE  IsFiniteSet(Live) /\ Cardinality(Live) \in Nat
<1>1. IsFiniteSet(Conns)
  BY FS_Interval DEF Conns
<1>2. IsFiniteSet(Live)
  BY <1>1, LiveTyped, FS_Subset
<1> QED
  BY <1>2, FS_CardinalityType

LEMMA InitAccounted == Init => Accounted
<1> SUFFICES ASSUME Init
             PROVE  Accounted
  OBVIOUS
<1>1. chk.conn = NoConn /\ free = [i \in 1..size |-> i] /\ size \in Nat /\ fail = 0
  BY DEF Init, InitRedis, InitMySql, InitRpc, Rest
<1>2. Free = 1..size /\ Held = {} /\ Probed = {}
  BY <1>1 DEF Init, Held, Free, Probed
<1>3. Live = 1..size
  BY <1>2 DEF Live
<1>4. Cardinality(Live) = size
  BY <1>1, <1>3, FS_Interval
<1> QED
  BY <1>1, <1>4 DEF Accounted

LEMMA NextAccounted == Typed /\ OnePlace /\ Accounted /\ [Next]_vars => Accounted'
<1> SUFFICES ASSUME Typed, OnePlace, Accounted, [Next]_vars, ~stop'
             PROVE  Accounted'
  BY DEF Accounted
<1>0. /\ IsFiniteSet(Live) /\ Cardinality(Live) \in Nat /\ fail \in Nat /\ size \in Nat
  BY ConnsFinite DEF Typed, TypeOK
<1>1. ASSUME ~stop, Live' = Live, UNCHANGED <<kind, size, fail>>
      PROVE  Accounted'
  BY <1>1 DEF Accounted
<1>2. CASE Still
  BY <1>1, <1>2, StillMoves
<1>3. ASSUME NEW u \in Users, Take(u) \/ \E c \in Conns : Return(u, c)
      PROVE  Accounted'
  BY <1>1, <1>3, TakeMoves, ReturnMoves DEF Take, Return, conf
<1>4. CASE PopProbe
  BY <1>1, <1>4, PopMoves DEF PopProbe, conf
<1>5. CASE PingOk \/ SelectOk
  BY <1>1, <1>5, ProbeBack DEF PingOk, SelectOk, conf
<1>6. CASE ProbeFails
  <2>1. Cardinality(Live') = Cardinality(Live) - 1
    BY <1>0, <1>6, ProbeLost, FS_RemoveElement
  <2>2. ~stop /\ fail' = fail + 1 /\ UNCHANGED <<kind, size>>
    BY <1>6 DEF ProbeFails, conf
  <2> QED
    BY <1>0, <2>1, <2>2 DEF Accounted
<1>7. CASE ForgetRecent
  <2>1. Cardinality(Live') = Cardinality(Live) - 1
    BY <1>0, <1>7, ProbeLost, FS_RemoveElement
  <2>2. ~stop /\ kind = "mysql" /\ UNCHANGED <<kind, size, fail>>
    BY <1>7 DEF ForgetRecent, conf, Typed, Probing
  <2> QED
    BY <1>0, <2>1, <2>2 DEF Accounted
<1>8. ASSUME NEW c \in Conns, Reconnect(c)
      PROVE  Accounted'
  <2>1. ~stop /\ fail' = fail - 1 /\ UNCHANGED <<kind, size>>
    BY <1>8 DEF Reconnect, conf
  <2>2. Cardinality(Live') = Cardinality(Live) + 1
    BY <1>0, <1>8, <2>1, ReconnectMoves, FS_AddElement
  <2> QED
    BY <1>0, <2>1, <2>2 DEF Accounted
<1> QED
  BY <1>2, <1>3, <1>4, <1>5, <1>6, <1>7, <1>8, NextIs

\* Every connection of the Redis and gRPC pools is in use, free or counted as failed,
\* until the pool is closed; MySQL's never has too many.
THEOREM NoneLost == Spec => []Accounted
  BY InitAccounted, NextAccounted, InitPlaces, NextPlaces, TypeCorrect, PTL DEF Spec, Typed
-----------------------------------------------------------------------------
(* Waiting *)

\* Who is at the predicate or waits asked for a connection and was free to; one at a
\* time is between its predicate and its sleep, the queue stays empty meanwhile, and
\* after Close nobody gets there.
Sleepy == {u \in Users : pc[u] = "sleepy"}

Asked == \A u \in Users : pc[u] # "run" => MayAsk(u)

OneSleepy ==
  /\ \A u, v \in Sleepy : u = v
  /\ Sleepy # {} => free = <<>>
  /\ stop => \A u, v \in Asleep \cup Sleepy : u = v

WaitInv == Asked /\ OneSleepy /\ NoLostWakeup

\* A notification wakes one of those who sleep, and touches nobody else.
LEMMA Notified ==
  ASSUME Typed, pc' \in NotifyOne(pc)
  PROVE  /\ Sleepy' = Sleepy /\ Asleep' \subseteq Asleep
         /\ \A u \in Users : pc'[u] = "run" <=> pc[u] = "run"
         /\ IsFiniteSet(Woken) /\ Cardinality(Woken) \in Nat
         /\ Asleep = {} => Asleep' = {}
         /\ Asleep # {} => Cardinality(Woken') = Cardinality(Woken) + 1
<1>0. pc \in [Users -> {"run", "sleepy", "asleep", "woken"}]
  BY DEF Typed, TypeOK
<1>1. IsFiniteSet(Woken) /\ Cardinality(Woken) \in Nat
  <2>1. Woken \in SUBSET Users
    BY DEF Woken
  <2> QED
    BY <2>1, FS_Subset, FS_CardinalityType
<1>2. CASE Asleep = {}
  <2>1. pc' = pc
    BY <1>2 DEF NotifyOne
  <2> QED
    BY <1>1, <1>2, <2>1 DEF Sleepy, Asleep
<1>3. CASE Asleep # {}
  <2>1. PICK w \in Asleep : pc' = [pc EXCEPT ![w] = "woken"]
    BY <1>3 DEF NotifyOne
  <2>2. \A u \in Users : pc'[u] = IF u = w THEN "woken" ELSE pc[u]
    BY <1>0, <2>1
  <2>3. w \in Users /\ pc[w] = "asleep"
    BY DEF Asleep
  <2>4. Woken' = Woken \cup {w} /\ w \notin Woken
    BY <2>2, <2>3 DEF Woken
  <2>5. Cardinality(Woken') = Cardinality(Woken) + 1
    BY <1>1, <2>4, FS_AddElement
  <2>6. Sleepy' = Sleepy /\ Asleep' \subseteq Asleep
    BY <2>2, <2>3 DEF Sleepy, Asleep
  <2> QED
    BY <1>1, <1>3, <2>2, <2>3, <2>5, <2>6
<1> QED
  BY <1>2, <1>3

LEMMA WokenFinite ==
  ASSUME Typed
  PROVE  IsFiniteSet(Woken) /\ Cardinality(Woken) \in Nat /\ free \in Seq(Conns)
         /\ pc \in [Users -> {"run", "sleepy", "asleep", "woken"}]
         /\ held \in [Users -> SUBSET Conns]
<1>1. Woken \in SUBSET Users
  BY DEF Woken
<1> QED
  BY <1>1, FS_Subset, FS_CardinalityType DEF Typed, TypeOK

LEMMA FreeMutex == MutexFree <=> Sleepy = {}
  BY DEF MutexFree, Sleepy

\* Steps of the check thread and of the server that touch neither queue nor users.
LEMMA QuietWaits ==
  ASSUME WaitInv, UNCHANGED <<kind, free, held, pc, stop>>
  PROVE  WaitInv'
<1>1. Asleep' = Asleep /\ Sleepy' = Sleepy /\ Woken' = Woken
  BY DEF Asleep, Sleepy, Woken
<1> QED
  BY <1>1 DEF WaitInv, Asked, MayAsk, OneSleepy, NoLostWakeup

\* A connection comes back with a notification.
LEMMA PushWaits ==
  ASSUME Typed, WaitInv, MutexFree, NEW c \in Conns, Push(c), UNCHANGED <<kind, stop>>,
         \A u \in Users : held'[u] = held[u] \/ pc[u] = "run"
  PROVE  WaitInv'
<1>1. /\ Sleepy' = {} /\ Asleep' \subseteq Asleep
      /\ \A u \in Users : pc'[u] = "run" <=> pc[u] = "run"
      /\ Cardinality(Woken) \in Nat /\ (Asleep = {} => Asleep' = {})
      /\ Asleep # {} => Cardinality(Woken') = Cardinality(Woken) + 1
  BY Notified, FreeMutex DEF Push
<1>2. Len(free) \in Nat /\ Len(free') = Len(free) + 1
  BY WokenFinite, Enqueue DEF Push
<1>3. Asked'
  BY <1>1 DEF WaitInv, Asked, MayAsk
<1>4. OneSleepy'
  BY <1>1 DEF WaitInv, OneSleepy
<1>5. NoLostWakeup'
  BY <1>1, <1>2 DEF WaitInv, NoLostWakeup
<1> QED
  BY <1>3, <1>4, <1>5 DEF WaitInv

\* The queue changes without a notification.
LEMMA SilentWaits ==
  ASSUME Typed, WaitInv, MutexFree, UNCHANGED <<kind, held, pc, stop>>,
         kind = "mysql" \/ stop \/ (Len(free') \in Nat /\ Len(free') <= Len(free))
  PROVE  WaitInv'
<1>1. Asleep' = Asleep /\ Sleepy' = {} /\ Woken' = Woken /\ Sleepy = {}
  BY FreeMutex DEF Asleep, Sleepy, Woken
<1>2. Len(free) \in Nat /\ Cardinality(Woken) \in Nat
  BY WokenFinite
<1>3. Asked'
  BY DEF WaitInv, Asked, MayAsk
<1>4. OneSleepy'
  BY <1>1 DEF WaitInv, OneSleepy
<1>5. NoLostWakeup'
  BY <1>1, <1>2 DEF WaitInv, NoLostWakeup
<1> QED
  BY <1>3, <1>4, <1>5 DEF WaitInv

LEMMA NextWaits == Typed /\ WaitInv /\ [Next]_vars => WaitInv'
<1> SUFFICES ASSUME Typed, WaitInv, [Next]_vars
             PROVE  WaitInv'
  OBVIOUS
<1>0. /\ pc \in [Users -> {"run", "sleepy", "asleep", "woken"}] /\ held \in [Users -> SUBSET Conns]
      /\ IsFiniteSet(Woken) /\ Cardinality(Woken) \in Nat /\ free \in Seq(Conns) /\ Len(free) \in Nat
  BY WokenFinite
<1>p. ASSUME NEW u \in Users, NEW l, pc' = [pc EXCEPT ![u] = l]
      PROVE  \A v \in Users : pc'[v] = IF v = u THEN l ELSE pc[v]
  BY <1>0, <1>p
<1>1. ASSUME NEW u \in Users, GetNull(u)
      PROVE  WaitInv'
  <2>1. /\ Sleepy = {} /\ stop /\ UNCHANGED <<kind, free, held, stop>>
        /\ \A v \in Users : pc'[v] = IF v = u THEN "run" ELSE pc[v]
    BY <1>1, <1>p, FreeMutex DEF GetNull, AtPredicate, conf
  <2>2. Sleepy' = {} /\ Asleep' \subseteq Asleep
    BY <2>1 DEF Sleepy, Asleep
  <2>3. Asked'
    BY <2>1 DEF WaitInv, Asked, MayAsk
  <2> QED
    BY <2>1, <2>2, <2>3 DEF WaitInv, OneSleepy, NoLostWakeup
<1>2. ASSUME NEW u \in Users, Take(u)
      PROVE  WaitInv'
  <2>1. /\ Sleepy = {} /\ ~stop /\ UNCHANGED <<kind, stop>> /\ pc[u] \in {"run", "woken"}
        /\ \A v \in Users : pc'[v] = IF v = u THEN "run" ELSE pc[v]
        /\ \A v \in Users : v # u => held'[v] = held[v]
    BY <1>0, <1>2, <1>p, FreeMutex DEF Take, AtPredicate, conf
  <2>2. Sleepy' = {} /\ Asleep' = Asleep
    BY <2>1 DEF Sleepy, Asleep
  <2>3. Asked'
    BY <2>1 DEF WaitInv, Asked, MayAsk
  <2>4. Len(free') = Len(free) - 1
    BY <1>0, <1>2, Dequeue DEF Take
  <2>5. Cardinality(Woken') \in {Cardinality(Woken), Cardinality(Woken) - 1}
    <3>1. Woken' = Woken \ {u}
      BY <2>1 DEF Woken
    <3> QED
      BY <1>0, <3>1, FS_RemoveElement
  <2>6. NoLostWakeup'
    BY <1>0, <2>1, <2>2, <2>4, <2>5 DEF WaitInv, NoLostWakeup
  <2> QED
    BY <2>1, <2>2, <2>3, <2>6 DEF WaitInv, OneSleepy
<1>3. ASSUME NEW u \in Users, FindEmpty(u)
      PROVE  WaitInv'
  <2>1. /\ Sleepy = {} /\ ~stop /\ UNCHANGED <<kind, stop, held, free>> /\ free = <<>>
        /\ pc[u] = "woken" \/ (pc[u] = "run" /\ MayAsk(u))
        /\ \A v \in Users : pc'[v] = IF v = u THEN "sleepy" ELSE pc[v]
    BY <1>3, <1>p, FreeMutex DEF FindEmpty, AtPredicate, conf
  <2>2. Sleepy' = {u} /\ Asleep' = Asleep
    BY <2>1 DEF Sleepy, Asleep
  <2>3. Asked'
    BY <2>1 DEF WaitInv, Asked, MayAsk
  <2>4. Cardinality(Woken') \in Nat /\ Len(free') = 0
    <3>1. Woken' \in SUBSET Users
      BY DEF Woken
    <3> QED
      BY <2>1, <3>1, FS_Subset, FS_CardinalityType
  <2>5. NoLostWakeup'
    BY <2>1, <2>2, <2>4 DEF NoLostWakeup
  <2> QED
    BY <2>1, <2>2, <2>3, <2>5 DEF WaitInv, OneSleepy
<1>4. ASSUME NEW u \in Users, Sleep(u)
      PROVE  WaitInv'
  <2>1. /\ pc[u] = "sleepy" /\ UNCHANGED <<kind, stop, held, free>>
        /\ \A v \in Users : pc'[v] = IF v = u THEN "asleep" ELSE pc[v]
    BY <1>4, <1>p DEF Sleep, conf
  <2>2. u \in Sleepy /\ Sleepy = {u} /\ free = <<>>
    BY <2>1 DEF WaitInv, OneSleepy, Sleepy
  <2>3. Sleepy' = {} /\ Asleep' = Asleep \cup {u} /\ Woken' = Woken
    BY <2>1, <2>2 DEF Sleepy, Asleep, Woken
  <2>4. Asked'
    BY <2>1 DEF WaitInv, Asked, MayAsk
  <2>5. NoLostWakeup'
    <3>1. Len(free') = 0
      BY <2>1, <2>2
    <3>2. stop => \A v, w \in Asleep' : v = w
      BY <2>2, <2>3 DEF WaitInv, OneSleepy
    <3>3. Len(free') <= Cardinality(Woken')
      BY <1>0, <2>3, <3>1
    <3> QED
      BY <2>1, <3>2, <3>3 DEF NoLostWakeup
  <2>6. OneSleepy'
    BY <2>1, <2>2, <2>3 DEF WaitInv, OneSleepy
  <2> QED
    BY <2>4, <2>5, <2>6 DEF WaitInv
<1>5. ASSUME NEW u \in Users, NEW c \in Conns, Return(u, c)
      PROVE  WaitInv'
  <2>1. /\ MutexFree /\ pc[u] = "run" /\ UNCHANGED <<kind, stop>>
        /\ \A v \in Users : held'[v] = held[v] \/ pc[v] = "run"
    BY <1>0, <1>5 DEF Return, conf
  <2>2. CASE stop
    <3>1. pc' = pc /\ free' = free
      BY <1>5, <2>2 DEF Return
    <3>2. Asked'
      BY <2>1, <3>1 DEF WaitInv, Asked, MayAsk
    <3>3. Asleep' = Asleep /\ Sleepy' = Sleepy
      BY <3>1 DEF Asleep, Sleepy
    <3> QED
      BY <2>1, <2>2, <3>1, <3>2, <3>3 DEF WaitInv, OneSleepy, NoLostWakeup
  <2>3. CASE ~stop
    BY <1>5, <2>1, <2>3, PushWaits DEF Return
  <2> QED
    BY <2>2, <2>3
<1>6. CASE Close
  <2>1. /\ ~stop /\ stop' /\ UNCHANGED <<kind, free, held>>
        /\ \A v \in Users : pc'[v] = IF pc[v] = "asleep" THEN "woken" ELSE pc[v]
    BY <1>6 DEF Close, NotifyAll, Asleep, conf
  <2>2. Sleepy' = Sleepy /\ Asleep' = {}
    BY <2>1 DEF Sleepy, Asleep
  <2>3. Asked'
    BY <2>1 DEF WaitInv, Asked, MayAsk
  <2> QED
    BY <2>1, <2>2, <2>3 DEF WaitInv, OneSleepy, NoLostWakeup
<1>7. CASE StartSweep \/ EndSweep \/ ProbeFails \/ ForgetRecent \/ EndReconnect \/ Server \/ UNCHANGED vars
  BY <1>7, QuietWaits
  DEF StartSweep, EndSweep, ProbeFails, ForgetRecent, EndReconnect, Server, Outage, Recover, Drop, conf, vars
<1>8. CASE PopProbe
  <2>1. Len(free') = Len(free) - 1 /\ Len(free) > 0
    BY <1>0, <1>8, Dequeue DEF PopProbe
  <2> QED
    BY <1>0, <1>8, <2>1, SilentWaits DEF PopProbe, conf
<1>9. CASE PingOk \/ SelectOk
  <2>1. chk.conn \in Conns /\ MutexFree /\ UNCHANGED <<kind, held, stop>>
    BY <1>9 DEF PingOk, SelectOk, Typed, Probing, conf
  <2>2. CASE Push(chk.conn)
    BY <2>1, <2>2, PushWaits
  <2>3. CASE UNCHANGED <<free, pc>>
    BY <2>1, <2>3, QuietWaits
  <2> QED
    BY <1>9, <2>2, <2>3 DEF PingOk, SelectOk
<1>10. ASSUME NEW c \in Conns, Reconnect(c)
       PROVE  WaitInv'
  <2>1. MutexFree /\ UNCHANGED <<kind, held, stop>>
    BY <1>10 DEF Reconnect, conf
  <2>2. CASE Push(c)
    BY <2>1, <2>2, PushWaits
  <2>3. CASE UNCHANGED <<free, pc>>
    BY <2>1, <2>3, QuietWaits
  <2>4. CASE kind = "mysql" /\ pc' = pc
    BY <2>1, <2>4, SilentWaits
  <2> QED
    BY <1>10, <2>2, <2>3, <2>4 DEF Reconnect, Replace
<1> QED
  BY <1>1, <1>2, <1>3, <1>4, <1>5, <1>6, <1>7, <1>8, <1>9, <1>10 DEF Next, User, Check

LEMMA InitWaits == Init => WaitInv
<1> SUFFICES ASSUME Init
             PROVE  WaitInv
  OBVIOUS
<1>1. \A u \in Users : pc[u] = "run"
  BY DEF Init
<1>2. Asleep = {} /\ Sleepy = {}
  BY <1>1 DEF Asleep, Sleepy
<1> QED
  BY <1>1, <1>2 DEF WaitInv, Asked, OneSleepy, NoLostWakeup

\* Redis and gRPC: for every free connection somebody is awake while others sleep;
\* and closing the pool without the mutex leaves at most one thread asleep.
THEOREM WakeupsReach == Spec => []NoLostWakeup
<1>1. WaitInv => NoLostWakeup
  BY DEF WaitInv
<1> QED
  BY <1>1, InitWaits, NextWaits, TypeCorrect, PTL DEF Spec, Typed

\* Everybody asleep with nothing free: whoever holds a connection is one of GetFriendList's
\* and holds one, so there are at most as many connections left as such callers.
LEMMA StuckCount ==
  ASSUME Typed, WaitInv
  PROVE  StuckOnlyIfNested
<1> SUFFICES ASSUME Asleep = Users, free = <<>>, chk.conn = NoConn
             PROVE  Cardinality(Live) <= IF kind = "mysql" THEN Cardinality(Nested) ELSE 0
  BY DEF StuckOnlyIfNested
<1>1. Live = Held
  BY DEF Live, Free, Probed
<1>2. \A u \in Users : MayAsk(u)
  BY DEF WaitInv, Asked, Asleep
<1>3. CASE kind # "mysql"
  <2>1. Held = {}
    BY <1>2, <1>3 DEF MayAsk, Held
  <2> QED
    BY <1>1, <1>3, <2>1, FS_EmptySet
<1>4. CASE kind = "mysql"
  <2>1. \A c \in Held : \E u \in Nested : c \in held[u] /\ Cardinality(held[u]) = 1
    BY <1>2, HeldIs DEF MayAsk
  <2>2. \A u \in Users : IsFiniteSet(held[u])
    <3>1. IsFiniteSet(Conns)
      BY FS_Interval DEF Conns
    <3>2. \A u \in Users : held[u] \in SUBSET Conns
      BY DEF Typed, TypeOK
    <3> QED
      BY <3>1, <3>2, FS_Subset
  <2> DEFINE holder == [c \in Held |-> CHOOSE u \in Nested : c \in held[u] /\ Cardinality(held[u]) = 1]
  <2>3. \A c \in Held : holder[c] \in Nested /\ c \in held[holder[c]] /\ Cardinality(held[holder[c]]) = 1
    BY <2>1
  <2> HIDE DEF holder
  <2>4. \A c, d \in Held : holder[c] = holder[d] => c = d
    <3> SUFFICES ASSUME NEW c \in Held, NEW d \in Held, holder[c] = holder[d]
                 PROVE  c = d
      OBVIOUS
    <3>1. \E x : held[holder[c]] = {x}
      BY <2>2, <2>3, FS_Singleton
    <3> QED
      BY <2>3, <3>1
  <2>5. holder \in Injection(Held, Nested)
    <3>1. holder \in [Held -> Nested] /\ DOMAIN holder = Held
      BY <2>3 DEF holder
    <3> QED
      BY <2>4, <3>1 DEF Injection, IsInjective
  <2>6. IsFiniteSet(Nested)
    BY FS_Subset
  <2>7. Cardinality(Held) <= Cardinality(Nested)
    BY <2>5, <2>6, FS_Injection
  <2> QED
    BY <1>1, <1>4, <2>7
<1> QED
  BY <1>3, <1>4

\* Redis and gRPC users cannot all wait for each other; MySQL's can, and only when
\* there are as many GetFriendLists as connections.
THEOREM StuckWhen == Spec => []StuckOnlyIfNested
  BY StuckCount, InitWaits, NextWaits, TypeCorrect, PTL DEF Spec, Typed
=============================================================================
