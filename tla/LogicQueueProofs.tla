-------------------------- MODULE LogicQueueProofs --------------------------
(***************************************************************************)
(* Theorems of LogicQueue, for any number of io threads and any requests.  *)
(***************************************************************************)
EXTENDS LogicQueue, SequenceTheorems, TLAPS

(* Sequences *)

\* A sequence is empty when its length is 0.
LEMMA EmptyIsZero ==
  ASSUME NEW S, NEW s \in Seq(S)
  PROVE  /\ Len(s) \in Nat
         /\ s = <<>> <=> Len(s) = 0
         /\ s # <<>> <=> Len(s) > 0
<1>1. <<>> \in Seq(S) /\ Len(<<>>) = 0 /\ (s # <<>> => Len(s) \in Nat \ {0})
  BY EmptySeq
<1>2. Len(s) \in Nat
  OBVIOUS
<1> QED
  BY <1>1, <1>2

\* Moving the head of a queue to the end of the sequence before it changes
\* nothing in what the two spell together.
LEMMA MoveHead ==
  ASSUME NEW S, NEW s \in Seq(S), NEW q \in Seq(S), Len(q) > 0
  PROVE  Append(s, Head(q)) \o Tail(q) = s \o q
<1>1. q # <<>>
  BY EmptyIsZero
<1> QED
  BY <1>1

-----------------------------------------------------------------------------

\* A worker about to sleep has seen an empty queue and kept posters out since; one
\* about to take the head of the queue has seen one, and nobody else takes it.
Seen == /\ worker = "willSleep" => Len(que) = 0
        /\ worker = "check" /\ ~stop => Len(que) > 0
        /\ worker = "drainOne" => Len(que) > 0

WakeInv == TypeOK /\ Seen /\ NoLostWakeup /\ InOrder

-----------------------------------------------------------------------------
LEMMA InitWake == Init => WakeInv
<1> SUFFICES ASSUME Init
             PROVE  WakeInv
  OBVIOUS
<1>1. <<>> \in Seq(Msgs) /\ <<>> \o <<>> = <<>>
  BY EmptySeq, ConcatEmptySeq
<1>2. TypeOK
  BY <1>1 DEF Init, TypeOK
<1>3. Seen /\ NoLostWakeup /\ InOrder
  BY <1>1 DEF Init, Seen, NoLostWakeup, InOrder
<1> QED
  BY <1>2, <1>3 DEF WakeInv

\* What a request leaving the queue does to the order.
LEMMA FinishKeeps ==
  ASSUME TypeOK, InOrder, Len(que) > 0,
         que' = Tail(que), done' = Append(done, Head(que)), posted' = posted
  PROVE  que' \in Seq(Msgs) /\ done' \in Seq(Msgs) /\ InOrder'
<1>1. que \in Seq(Msgs) /\ done \in Seq(Msgs)
  BY DEF TypeOK
<1>2. que' \in Seq(Msgs) /\ done' \in Seq(Msgs)
  BY <1>1
<1>3. Append(done, Head(que)) \o Tail(que) = done \o que
  BY <1>1, MoveHead
<1> QED
  BY <1>2, <1>3 DEF InOrder

LEMMA PostKeeps ==
  ASSUME WakeInv, NEW p \in Posters, NEW m \in Msgs, PostMsgToQue(p, m)
  PROVE  WakeInv'
<1>1. que \in Seq(Msgs) /\ posted \in Seq(Msgs) /\ done \in Seq(Msgs)
  BY DEF WakeInv, TypeOK
<1>2. /\ que' = Append(que, m) /\ posted' = Append(posted, m) /\ done' = done
      /\ worker' = worker /\ stop' = stop /\ dtor' = dtor /\ MutexFree
  BY DEF PostMsgToQue
<1>3. que' \in Seq(Msgs) /\ posted' \in Seq(Msgs) /\ Len(que') = Len(que) + 1
  BY <1>1, <1>2
<1>4. poster' = IF Len(que') = 1 THEN [poster EXCEPT ![p] = "notify"] ELSE poster
  BY DEF PostMsgToQue, NeedsNotify
<1>5. TypeOK'
  BY <1>2, <1>3, <1>4, <1>1 DEF WakeInv, TypeOK
<1>6. InOrder'
  <2>1. done \in Seq(Msgs) /\ que \in Seq(Msgs) /\ m \in Msgs
    BY <1>1
  <2>2. Append(done \o que, m) = done \o Append(que, m)
    BY <2>1
  <2> QED
    BY <1>2, <2>2 DEF WakeInv, InOrder
<1>7. Seen'
  BY <1>2 DEF Seen, MutexFree
<1>8. NoLostWakeup'
  <2>1. CASE que = <<>>
    <3>1. Len(que') = 1
      BY <1>1, <1>3, <2>1, EmptyIsZero
    <3>2. poster'[p] = "notify"
      BY <1>4, <3>1 DEF WakeInv, TypeOK
    <3> QED
      BY <3>2 DEF NoLostWakeup
  <2>2. CASE que # <<>>
    <3>1. Len(que) > 0
      BY <1>1, <2>2, EmptyIsZero
    <3>2. Len(que') # 1
      BY <1>1, <1>3, <3>1
    <3>3. poster' = poster
      BY <1>4, <3>2
    <3> QED
      BY <1>2, <2>2, <3>3 DEF WakeInv, NoLostWakeup
  <2> QED
    BY <2>1, <2>2
<1> QED
  BY <1>5, <1>6, <1>7, <1>8 DEF WakeInv

LEMMA NotifyKeeps ==
  ASSUME WakeInv, NEW p \in Posters, NotifyOne(p)
  PROVE  WakeInv'
<1>1. /\ que' = que /\ posted' = posted /\ done' = done /\ stop' = stop /\ dtor' = dtor
      /\ poster' = [poster EXCEPT ![p] = "out"]
      /\ worker' = IF worker = "asleep" THEN "lock" ELSE worker
  BY DEF NotifyOne, Notify
<1>2. TypeOK'
  BY <1>1 DEF WakeInv, TypeOK
<1>3. Seen' /\ NoLostWakeup' /\ InOrder'
  BY <1>1 DEF WakeInv, Seen, NoLostWakeup, InOrder
<1> QED
  BY <1>2, <1>3 DEF WakeInv

LEMMA DtorKeeps ==
  ASSUME WakeInv, SetStop \/ StopNotify
  PROVE  WakeInv'
<1>1. CASE SetStop
  <2>1. /\ que' = que /\ posted' = posted /\ done' = done /\ stop' = TRUE
        /\ dtor' = "notify" /\ poster' = poster /\ worker' = worker
    BY <1>1 DEF SetStop
  <2>2. TypeOK'
    BY <2>1 DEF WakeInv, TypeOK
  <2> QED
    BY <2>1, <2>2 DEF WakeInv, Seen, NoLostWakeup, InOrder
<1>2. CASE StopNotify
  <2>1. /\ que' = que /\ posted' = posted /\ done' = done /\ stop' = stop
        /\ dtor' = "join" /\ poster' = poster
        /\ worker' = IF worker = "asleep" THEN "lock" ELSE worker
    BY <1>2 DEF StopNotify, Notify
  <2>2. TypeOK'
    BY <2>1 DEF WakeInv, TypeOK
  <2> QED
    BY <2>1, <2>2 DEF WakeInv, Seen, NoLostWakeup, InOrder
<1> QED
  BY <1>1, <1>2

\* The worker's steps.  All but the two that finish a request leave the queue alone.
LEMMA WorkerKeeps ==
  ASSUME WakeInv, DelMsg \/ Spurious
  PROVE  WakeInv'
<1>0. /\ que \in Seq(Msgs) /\ que = <<>> <=> Len(que) = 0
      /\ que # <<>> <=> Len(que) > 0
  <2>1. que \in Seq(Msgs)
    BY DEF WakeInv, TypeOK
  <2> QED
    BY <2>1, EmptyIsZero
<1>1. CASE TestPredicate
  <2>1. /\ que' = que /\ done' = done /\ posted' = posted /\ poster' = poster
        /\ stop' = stop /\ dtor' = dtor
        /\ worker' = IF stop \/ que # <<>> THEN "check" ELSE "willSleep"
    BY <1>1 DEF TestPredicate, WorkerGoes
  <2>2. TypeOK'
    BY <2>1 DEF WakeInv, TypeOK
  <2>3. Seen'
    <3>1. CASE stop \/ que # <<>>
      BY <1>0, <2>1, <3>1, Zenon DEF Seen
    <3>2. CASE ~(stop \/ que # <<>>)
      BY <1>0, <2>1, <3>2, Zenon DEF Seen
    <3> QED
      BY <3>1, <3>2
  <2> QED
    BY <2>1, <2>2, <2>3 DEF WakeInv, NoLostWakeup, InOrder
<1>2. CASE Sleep
  <2>1. /\ que' = que /\ done' = done /\ posted' = posted /\ poster' = poster
        /\ stop' = stop /\ dtor' = dtor /\ worker' = "asleep" /\ worker = "willSleep"
    BY <1>2 DEF Sleep, WorkerGoes
  <2>2. TypeOK'
    BY <2>1 DEF WakeInv, TypeOK
  <2>3. que = <<>>
    BY <1>0, <2>1 DEF WakeInv, Seen
  <2> QED
    BY <2>1, <2>2, <2>3 DEF WakeInv, Seen, NoLostWakeup, InOrder
<1>3. CASE Spurious \/ HandlerThrows \/ DrainKnown
  <2>1. /\ que' = que /\ done' = done /\ posted' = posted /\ poster' = poster
        /\ stop' = stop /\ dtor' = dtor /\ worker' \in {"lock", "dead", "drain"}
    BY <1>3 DEF Spurious, HandlerThrows, DrainKnown, WorkerGoes
  <2>2. TypeOK'
    BY <2>1 DEF WakeInv, TypeOK
  <2> QED
    BY <2>1, <2>2 DEF WakeInv, Seen, NoLostWakeup, InOrder
<1>4. CASE DrainTest
  <2>1. /\ que' = que /\ done' = done /\ posted' = posted /\ poster' = poster
        /\ stop' = stop /\ dtor' = dtor
        /\ worker' = IF que = <<>> THEN "joined" ELSE "drainOne"
    BY <1>4 DEF DrainTest, WorkerGoes
  <2>2. TypeOK'
    BY <2>1 DEF WakeInv, TypeOK
  <2> QED
    BY <1>0, <2>1, <2>2 DEF WakeInv, Seen, NoLostWakeup, InOrder
<1>5. CASE Handle \/ DrainUnknown
  <2>1. /\ que' = Tail(que) /\ done' = Append(done, Head(que)) /\ posted' = posted
        /\ poster' = poster /\ stop' = stop /\ dtor' = dtor
        /\ worker' \in {"lock", "drain"}
    BY <1>5 DEF Handle, DrainUnknown, Finish, WorkerGoes
  <2>2. Len(que) > 0
    BY <1>5 DEF Handle, DrainUnknown, WakeInv, Seen
  <2>3. que' \in Seq(Msgs) /\ done' \in Seq(Msgs) /\ InOrder'
    BY <2>1, <2>2, FinishKeeps DEF WakeInv
  <2>4. TypeOK'
    BY <2>1, <2>3 DEF WakeInv, TypeOK
  <2> QED
    BY <2>1, <2>3, <2>4 DEF WakeInv, Seen, NoLostWakeup
<1> QED
  BY <1>1, <1>2, <1>3, <1>4, <1>5 DEF DelMsg

THEOREM WakeInvariant == Spec => []WakeInv
<1>1. WakeInv /\ [Next]_vars => WakeInv'
  <2> SUFFICES ASSUME WakeInv, [Next]_vars
               PROVE  WakeInv'
    OBVIOUS
  <2>1. CASE UNCHANGED vars
    BY <2>1 DEF vars, WakeInv, TypeOK, Seen, NoLostWakeup, InOrder
  <2> QED
    BY <2>1, PostKeeps, NotifyKeeps, DtorKeeps, WorkerKeeps DEF Next
<1> QED
  BY <1>1, InitWake, PTL DEF Spec

\* Type correctness.
THEOREM TypeCorrect == Spec => []TypeOK
  BY WakeInvariant, PTL DEF WakeInv

\* No interleaving of posters, worker and destructor puts the worker to sleep on a
\* request that nobody is about to wake it for.
THEOREM NoSleepOnWork == Spec => []NoLostWakeup
  BY WakeInvariant, PTL DEF WakeInv

\* Requests are finished in the order in which they were posted.
THEOREM FinishedInOrder == Spec => []InOrder
  BY WakeInvariant, PTL DEF WakeInv
=============================================================================
