-------------------------- MODULE SendQueueProofs --------------------------
(***************************************************************************)
(* Theorems of SendQueue, for every set of messages and every MAX_SENDQUE. *)
(***************************************************************************)
EXTENDS SendQueue, SequenceTheorems, TLAPS

(* Sequences *)

\* A sequence is empty when its length is 0.
LEMMA EmptyIsZero ==
  ASSUME NEW S, NEW s \in Seq(S)
  PROVE  /\ Len(s) \in Nat
         /\ s = <<>> <=> Len(s) = 0
         /\ s # <<>> <=> Len(s) > 0
<1>1. <<>> \in Seq(S) /\ Len(<<>>) = 0 /\ (s # <<>> => Len(s) \in Nat \ {0})
  BY EmptySeq
<1>2. Len(s) \in Nat
  OBVIOUS
<1> QED
  BY <1>1, <1>2

\* The only element of a sequence.
LEMMA OnlyElement ==
  ASSUME NEW S, NEW s \in Seq(S), Len(s) = 1
  PROVE  s[1] \in S /\ Head(s) = s[1] /\ Tail(s) = <<>>
<1>1. s[1] \in S /\ Head(s) = s[1]
  OBVIOUS
<1>2. Tail(s) \in Seq(S) /\ Len(Tail(s)) = 0
  OBVIOUS
<1> QED
  BY <1>1, <1>2, EmptyIsZero

LEMMA Singleton ==
  ASSUME NEW S, NEW x \in S
  PROVE  <<x>> \in Seq(S) /\ Len(<<x>>) = 1 /\ <<x>>[1] = x
  OBVIOUS

\* Moving the head of a queue to the end of the sequence before it changes
\* nothing in what the two spell together.
LEMMA MoveHead ==
  ASSUME NEW S, NEW s \in Seq(S), NEW q \in Seq(S), Len(q) > 0
  PROVE  Append(s, Head(q)) \o Tail(q) = s \o q
<1>1. q # <<>>
  BY EmptyIsZero
<1> QED
  BY <1>1

-----------------------------------------------------------------------------

\* What the queue needs to stay in order: it never outgrows the limit by more than
\* one, the write under way is of its head, it is served, nothing was lost.
QueueInv == /\ TypeOK
            /\ OneWrite
            /\ QueueIsServed
            /\ InOrder

-----------------------------------------------------------------------------
\* OneWrite and QueueIsServed without emptiness: lengths, which the provers count
\* with.
LEMMA InLengths ==
  ASSUME NEW q \in Seq(Msgs), NEW w \in Seq(Writes), NEW f \in BOOLEAN
  PROVE  /\ (w # <<>> => q # <<>> /\ w[1].m = Head(q))
            <=> (Len(w) > 0 => Len(q) > 0 /\ w[1].m = Head(q))
         /\ (IF f THEN q # <<>> /\ w = <<>> ELSE q # <<>> => w # <<>>)
            <=> /\ f => Len(q) > 0 /\ Len(w) = 0
                /\ ~f => (Len(q) > 0 => Len(w) > 0)
<1>1. /\ q # <<>> <=> Len(q) > 0
      /\ w # <<>> <=> Len(w) > 0
      /\ w = <<>> <=> Len(w) = 0
  BY EmptyIsZero
<1>2. CASE f
  BY <1>1, <1>2
<1>3. CASE ~f
  BY <1>1, <1>3
<1> QED
  BY <1>2, <1>3

\* The same before and after a step.
LEMMA QueueInvByLength ==
  ASSUME QueueInv
  PROVE  /\ que \in Seq(Msgs) /\ inflight \in Seq(Writes) /\ failed \in BOOLEAN
         /\ Len(inflight) <= 1
         /\ Len(inflight) > 0 => Len(que) > 0 /\ inflight[1].m = Head(que)
         /\ failed => Len(que) > 0 /\ Len(inflight) = 0
         /\ ~failed => (Len(que) > 0 => Len(inflight) > 0)
<1>1. que \in Seq(Msgs) /\ inflight \in Seq(Writes) /\ failed \in BOOLEAN
  BY DEF QueueInv, TypeOK
<1> QED
  BY <1>1, InLengths DEF QueueInv, OneWrite, QueueIsServed

LEMMA QueueInvNext ==
  ASSUME TypeOK',
         Len(inflight') <= 1,
         Len(inflight') > 0 => Len(que') > 0 /\ inflight'[1].m = Head(que'),
         failed' => Len(que') > 0 /\ Len(inflight') = 0,
         ~failed' => (Len(que') > 0 => Len(inflight') > 0),
         pushed' = wire' \o que'
  PROVE  QueueInv'
<1>1. que' \in Seq(Msgs) /\ inflight' \in Seq(Writes) /\ failed' \in BOOLEAN
  BY DEF TypeOK
<1>2. OneWrite' /\ QueueIsServed'
  BY <1>1, InLengths DEF OneWrite, QueueIsServed
<1> QED
  BY <1>2 DEF QueueInv, InOrder

-----------------------------------------------------------------------------
LEMMA InitQueue == Init => QueueInv
<1> SUFFICES ASSUME Init
             PROVE  QueueInv
  OBVIOUS
<1>1. <<>> \in Seq(Msgs) /\ <<>> \in Seq(Writes) /\ Len(<<>>) = 0
  BY EmptySeq
<1>2. <<>> \o <<>> = <<>>
  BY <1>1, ConcatEmptySeq
<1>3. TypeOK
  <2>1. que = <<>> /\ Len(que) = 0
    BY <1>1 DEF Init
  <2>2. Len(que) <= MaxSendQue + 1
    BY <2>1, LimitAssumption
  <2> QED
    BY <1>1, <2>2 DEF Init, TypeOK
<1> QED
  BY <1>1, <1>2, <1>3 DEF Init, QueueInv, OneWrite, QueueIsServed, InOrder

\* Send: the new message joins the end, and is written at once if it is alone.
LEMMA SendKeeps == ASSUME QueueInv, NEW m \in Msgs, Send(m) PROVE QueueInv'
<1>1. que \in Seq(Msgs) /\ pushed \in Seq(Msgs) /\ wire \in Seq(Msgs)
      /\ inflight \in Seq(Writes)
  BY DEF QueueInv, TypeOK
<1>0. open \in BOOLEAN /\ failed \in BOOLEAN
  BY DEF QueueInv, TypeOK
<1>2. /\ que' = Append(que, m) /\ pushed' = Append(pushed, m)
      /\ open' = open /\ failed' = failed /\ wire' = wire
  BY DEF Send
<1>3. /\ que' \in Seq(Msgs) /\ Len(que') = Len(que) + 1 /\ Head(que') \in Msgs
      /\ Len(que) > 0 => Head(que') = Head(que)
  BY <1>1, <1>2
<1>4. Write(que') \in Writes /\ Write(que').m = Head(que')
  BY <1>0, <1>1, <1>3 DEF Write, Writes
<1>5. pushed' = wire' \o que'
  <2>1. pushed = wire \o que
    BY DEF QueueInv, InOrder
  <2>2. wire \in Seq(Msgs) /\ que \in Seq(Msgs) /\ m \in Msgs
    BY <1>1
  <2>3. Append(wire \o que, m) = wire \o Append(que, m)
    BY <2>2
  <2> QED
    BY <1>2, <2>1, <2>3
<1>6. Len(que') <= MaxSendQue + 1 /\ Len(que) \in Nat
  BY <1>1, <1>3, LimitAssumption DEF Send, QueueFull
<1>7. CASE Len(que) = 0
  <2>1. inflight' = Append(inflight, Write(que'))
    BY <1>7 DEF Send, StartsWrite
  <2>2. Len(inflight) = 0 /\ ~failed
    <3>1. /\ Len(inflight) > 0 => Len(que) > 0
      BY QueueInvByLength
    <3>2. failed => Len(que) > 0
      BY QueueInvByLength
    <3>3. Len(inflight) = 0 /\ ~(Len(que) > 0)
      BY <1>1, <1>7, <3>1
    <3> QED
      BY <3>2, <3>3
  <2>3. inflight' \in Seq(Writes) /\ Len(inflight') = 1 /\ inflight'[1] = Write(que')
    BY <1>1, <1>4, <2>1, <2>2
  <2>4. TypeOK'
    BY <1>0, <1>1, <1>2, <1>3, <1>6, <2>3 DEF TypeOK
  <2>5. /\ Len(inflight') <= 1
        /\ Len(inflight') > 0 => Len(que') > 0 /\ inflight'[1].m = Head(que')
        /\ failed' => Len(que') > 0 /\ Len(inflight') = 0
        /\ ~failed' => (Len(que') > 0 => Len(inflight') > 0)
    <3>1. Len(inflight') <= 1 /\ Len(inflight') > 0 /\ Len(que') > 0
          /\ inflight'[1].m = Head(que')
      BY <1>3, <1>4, <1>7, <2>3
    <3> QED
      BY <1>2, <2>2, <3>1
  <2> QED
    BY <1>5, <2>4, <2>5, QueueInvNext
<1>8. CASE Len(que) > 0
  <2>1. inflight' = inflight
    BY <1>8 DEF Send, StartsWrite
  <2>2. TypeOK'
    BY <1>0, <1>1, <1>2, <1>3, <1>6, <2>1 DEF TypeOK
  <2>3. /\ Len(inflight') <= 1
        /\ Len(inflight') > 0 => Len(que') > 0 /\ inflight'[1].m = Head(que')
        /\ failed' => Len(que') > 0 /\ Len(inflight') = 0
        /\ ~failed' => (Len(que') > 0 => Len(inflight') > 0)
    <3>1. /\ Len(inflight) <= 1
          /\ Len(inflight) > 0 => Len(que) > 0 /\ inflight[1].m = Head(que)
          /\ failed => Len(que) > 0 /\ Len(inflight) = 0
          /\ ~failed => (Len(que) > 0 => Len(inflight) > 0)
      BY QueueInvByLength
    <3>2. Len(que') > 0 /\ Head(que') = Head(que) /\ inflight' = inflight /\ failed' = failed
      BY <1>2, <1>3, <1>8, <2>1
    <3> QED
      BY <1>8, <3>1, <3>2
  <2> QED
    BY <1>5, <2>2, <2>3, QueueInvNext
<1> QED
  BY <1>6, <1>7, <1>8

\* HandleWrite: the head leaves the queue for the connection, the next is written.
LEMMA WriteKeeps == ASSUME QueueInv, HandleWrite PROVE QueueInv'
<1>1. que \in Seq(Msgs) /\ pushed \in Seq(Msgs) /\ wire \in Seq(Msgs)
      /\ inflight \in Seq(Writes)
  BY DEF QueueInv, TypeOK
<1>0. open \in BOOLEAN /\ failed \in BOOLEAN
  BY DEF QueueInv, TypeOK
<1>2. /\ inflight # <<>> /\ wire' = Append(wire, Head(inflight).m)
      /\ que' = Tail(que) /\ inflight' = Tail(inflight) \o NextWrite(que)
      /\ open' = open /\ failed' = failed /\ pushed' = pushed
  BY DEF HandleWrite
<1>3. Len(inflight) > 0 /\ Len(inflight) \in Nat
  BY <1>1, <1>2, EmptyIsZero
<1>4. Len(inflight) = 1 /\ Len(que) > 0 /\ ~failed /\ inflight[1].m = Head(que)
  <2>1. /\ Len(inflight) <= 1
        /\ Len(inflight) > 0 => Len(que) > 0 /\ inflight[1].m = Head(que)
    BY QueueInvByLength
  <2>2. failed => Len(inflight) = 0
    BY QueueInvByLength
  <2>3. Len(inflight) <= 1
    BY <2>1
  <2>4. Len(inflight) = 1 /\ Len(inflight) # 0
    BY <1>3, <2>3
  <2> QED
    BY <1>3, <2>1, <2>2, <2>4
<1>5. Head(inflight) = inflight[1] /\ Tail(inflight) = <<>>
  BY <1>1, <1>4, OnlyElement
<1>6. /\ Head(que) \in Msgs /\ que' \in Seq(Msgs) /\ Len(que') = Len(que) - 1
  BY <1>1, <1>2, <1>4
<1>7. wire' = Append(wire, Head(que)) /\ wire' \in Seq(Msgs)
  BY <1>1, <1>2, <1>4, <1>5, <1>6
<1>8. pushed' = wire' \o que'
  <2>1. pushed = wire \o que
    BY DEF QueueInv, InOrder
  <2>2. Append(wire, Head(que)) \o Tail(que) = wire \o que
    BY <1>1, <1>4, MoveHead
  <2> QED
    BY <1>2, <1>7, <2>1, <2>2
<1>9. Len(que') <= MaxSendQue + 1
  BY <1>1, <1>6, LimitAssumption DEF QueueInv, TypeOK
<1>10. CASE Len(que) > 1
  <2>1. Head(que') \in Msgs
    BY <1>6, <1>10
  <2>2. Write(que') \in Writes /\ Write(que').m = Head(que')
    BY <1>0, <1>1, <2>1 DEF Write, Writes
  <2>3. inflight' = <<>> \o <<Write(que')>>
    BY <1>2, <1>5, <1>10 DEF NextWrite
  <2>4. <<Write(que')>> \in Seq(Writes) /\ Len(<<Write(que')>>) = 1
        /\ <<Write(que')>>[1] = Write(que')
    BY <2>2, Singleton
  <2>5. inflight' = <<Write(que')>>
    BY <2>3, <2>4, ConcatEmptySeq
  <2>6. TypeOK'
    BY <1>0, <1>1, <1>2, <1>6, <1>7, <1>9, <2>4, <2>5 DEF TypeOK
  <2>7. /\ Len(inflight') <= 1
        /\ Len(inflight') > 0 => Len(que') > 0 /\ inflight'[1].m = Head(que')
        /\ failed' => Len(que') > 0 /\ Len(inflight') = 0
        /\ ~failed' => (Len(que') > 0 => Len(inflight') > 0)
    <3>1. Len(inflight') = 1 /\ inflight'[1] = Write(que')
      BY <2>4, <2>5
    <3>2. Len(que') > 0 /\ ~failed'
      BY <1>1, <1>2, <1>4, <1>6, <1>10
    <3> QED
      BY <2>2, <3>1, <3>2
  <2> QED
    BY <1>8, <2>6, <2>7, QueueInvNext
<1>11. CASE Len(que) = 1
  <2>1. inflight' = <<>> \o <<>>
    BY <1>2, <1>5, <1>11 DEF NextWrite
  <2>2. inflight' = <<>> /\ inflight' \in Seq(Writes) /\ Len(inflight') = 0
    BY <2>1, EmptySeq, ConcatEmptySeq
  <2>3. TypeOK'
    BY <1>0, <1>1, <1>2, <1>6, <1>7, <1>9, <2>2 DEF TypeOK
  <2>4. /\ Len(inflight') <= 1
        /\ Len(inflight') > 0 => Len(que') > 0 /\ inflight'[1].m = Head(que')
        /\ failed' => Len(que') > 0 /\ Len(inflight') = 0
        /\ ~failed' => (Len(que') > 0 => Len(inflight') > 0)
    <3>1. Len(que') = 0 /\ ~failed'
      BY <1>2, <1>4, <1>6, <1>11
    <3> QED
      BY <2>2, <3>1
  <2> QED
    BY <1>8, <2>3, <2>4, QueueInvNext
<1> QED
  BY <1>1, <1>4, <1>10, <1>11

\* HandleWrite with an error: the queue stays, and nothing serves it any more.
LEMMA ErrorKeeps == ASSUME QueueInv, HandleWriteError PROVE QueueInv'
<1>1. que \in Seq(Msgs) /\ pushed \in Seq(Msgs) /\ wire \in Seq(Msgs)
      /\ inflight \in Seq(Writes)
  BY DEF QueueInv, TypeOK
<1>2. /\ inflight # <<>> /\ open' = FALSE /\ failed'
      /\ inflight' = Tail(inflight)
      /\ que' = que /\ pushed' = pushed /\ wire' = wire
  BY DEF HandleWriteError
<1>3. Len(inflight) > 0 /\ Len(inflight) \in Nat
  BY <1>1, <1>2, EmptyIsZero
<1>4. Len(inflight) = 1 /\ Len(que) > 0
  <2>1. /\ Len(inflight) <= 1
        /\ Len(inflight) > 0 => Len(que) > 0 /\ inflight[1].m = Head(que)
    BY QueueInvByLength
  <2>2. failed => Len(inflight) = 0
    BY QueueInvByLength
  <2>3. Len(inflight) <= 1
    BY <2>1
  <2>4. Len(inflight) = 1 /\ Len(inflight) # 0
    BY <1>3, <2>3
  <2> QED
    BY <1>3, <2>1, <2>2, <2>4
<1>5. inflight' = <<>> /\ inflight' \in Seq(Writes) /\ Len(inflight') = 0
  BY <1>1, <1>2, <1>4, OnlyElement, EmptySeq
<1>6. TypeOK'
  BY <1>1, <1>2, <1>5 DEF TypeOK, QueueInv
<1>7. pushed' = wire' \o que'
  BY <1>2 DEF QueueInv, InOrder
<1>8. /\ Len(inflight') <= 1
      /\ Len(inflight') > 0 => Len(que') > 0 /\ inflight'[1].m = Head(que')
      /\ failed' => Len(que') > 0 /\ Len(inflight') = 0
      /\ ~failed' => (Len(que') > 0 => Len(inflight') > 0)
  <2>1. que' = que
    BY <1>2
  <2>2. Len(inflight') <= 1 /\ Len(inflight') = 0 /\ ~(Len(inflight') > 0) /\ Len(que') > 0
    BY <1>4, <1>5, <2>1
  <2> QED
    BY <1>2, <2>2
<1> QED
  BY <1>6, <1>7, <1>8, QueueInvNext

\* Close and stuttering leave the queue as it is.
LEMMA RestKeeps == ASSUME QueueInv, Close \/ UNCHANGED vars PROVE QueueInv'
<1>1. /\ que' = que /\ inflight' = inflight /\ failed' = failed
      /\ pushed' = pushed /\ wire' = wire
      /\ open' = open \/ open' = FALSE
  BY DEF Close, vars
<1>2. TypeOK'
  BY <1>1 DEF QueueInv, TypeOK
<1> QED
  BY <1>1, <1>2 DEF QueueInv, OneWrite, QueueIsServed, InOrder

\* QueueInv is an invariant: with it, order, service and one write at a time.
THEOREM QueueInvariant == Spec => []QueueInv
<1>1. QueueInv /\ [Next]_vars => QueueInv'
  <2> SUFFICES ASSUME QueueInv, [Next]_vars
               PROVE  QueueInv'
    OBVIOUS
  <2> QED
    BY SendKeeps, WriteKeeps, ErrorKeeps, RestKeeps DEF Next
<1> QED
  BY <1>1, InitQueue, PTL DEF Spec

\* Messages are written in the order of acceptance, without loss or repetition.
THEOREM Ordered == Spec => []InOrder
  BY QueueInvariant, PTL DEF QueueInv

\* Never two writes at a time, and the one under way is of the head of the queue.
THEOREM SingleWrite == Spec => []OneWrite
  BY QueueInvariant, PTL DEF QueueInv

\* A queue with messages is being written, unless a write has failed.
THEOREM Served == Spec => []QueueIsServed
  BY QueueInvariant, PTL DEF QueueInv

\* The queue holds MAX_SENDQUE + 1 messages at most, one more than documented.
THEOREM TypeCorrect == Spec => []TypeOK
  BY QueueInvariant, PTL DEF QueueInv

-----------------------------------------------------------------------------
\* What each step is to the channel.
LEMMA ChannelStep == ASSUME QueueInv, [Next]_vars PROVE [Chan!Next]_(Chan!vars)
<1> USE DEF QueueInv, TypeOK
<1>0. Len(pushed) = Len(wire) + Len(que)
  BY ConcatProperties DEF InOrder
<1>1. ASSUME NEW m \in Msgs, Send(m)
      PROVE  Chan!Next
  <2>1. Len(pushed) - Len(wire) <= MaxSendQue
    BY <1>0, <1>1, LenProperties, LimitAssumption DEF Send, QueueFull
  <2>2. Chan!Put(m)
    BY <1>1, <2>1 DEF Send, Chan!Put
  <2> QED
    BY <2>2 DEF Chan!Next
<1>2. ASSUME HandleWrite
      PROVE  Chan!Next
  <2>1. que # <<>> /\ ~failed /\ Head(inflight).m = Head(que)
    BY <1>2, HeadTailProperties DEF HandleWrite, OneWrite, QueueIsServed
  <2>2. Len(que) > 0 /\ Head(que) = que[1]
    BY <2>1, EmptySeq
  <2>3. Len(wire) < Len(pushed) /\ pushed[Len(wire) + 1] = que[1]
    BY <1>0, <2>2, LenProperties, ConcatProperties DEF InOrder
  <2>4. Chan!Get
    BY <1>2, <2>1, <2>2, <2>3 DEF HandleWrite, Chan!Get
  <2> QED
    BY <2>4 DEF Chan!Next
<1>3. ASSUME HandleWriteError
      PROVE  Chan!Next
  BY <1>3 DEF HandleWriteError, Chan!Break, Chan!Next
<1>4. CASE Close \/ UNCHANGED vars
  BY <1>4 DEF Close, vars, Chan!vars
<1> QED
  BY <1>1, <1>2, <1>3, <1>4 DEF Next

\* The send queue implements the ordered channel.
THEOREM Implementation == Spec => ImplementsChannel
<1>1. Init => Chan!Init
  BY DEF Init, Chan!Init
<1> QED
  BY <1>1, ChannelStep, QueueInvariant, PTL DEF Spec, ImplementsChannel, Chan!Spec
=============================================================================
