----------------------------- MODULE SendQueue -----------------------------
(***************************************************************************)
(* The send queue of a connection: CSession::Send, called by the logic     *)
(* thread, by gRPC threads and by the io thread, and HandleWrite, the      *)
(* completion of each async_write on the io thread.  Send and the success  *)
(* branch of HandleWrite hold _send_lock, so each is one step.             *)
(***************************************************************************)
EXTENDS Integers, Sequences

CONSTANTS Msgs,
          MaxSendQue,   \* MAX_SENDQUE
          MaxSends      \* bound of the model: messages accepted in all

ASSUME LimitAssumption == MaxSendQue \in Nat /\ MaxSends \in Nat

VARIABLES que,       \* _send_que
          inflight,  \* the async_writes under way: whose buffer, and whether the
                     \* socket was open when it started
          open,      \* the socket is open
          failed,    \* HandleWrite has been called with an error
          pushed,    \* history: the messages Send has queued
          wire       \* history: the messages written

vars == <<que, inflight, open, failed, pushed, wire>>

Init == /\ que = <<>> /\ inflight = <<>> /\ open = TRUE /\ failed = FALSE
        /\ pushed = <<>> /\ wire = <<>>

\* async_write of the front of queue q.
Write(q) == [m |-> Head(q), ok |-> open]

\* Who starts the next write: only a Send that finds the queue empty (the mutated
\* form starts one in every Send).
StartAlways(q)  == TRUE
StartsWrite(q)  == Len(q) = 0

\* Send on a queue that is not full; a full one drops the message and nothing
\* changes (in the mutated form it never is full).
NeverFull == FALSE
QueueFull == Len(que) > MaxSendQue

Send(m) ==
  /\ Len(pushed) < MaxSends
  /\ ~QueueFull
  /\ que' = Append(que, m)
  /\ pushed' = Append(pushed, m)
  /\ inflight' = IF StartsWrite(que) THEN Append(inflight, Write(que')) ELSE inflight
  /\ UNCHANGED <<open, failed, wire>>

\* What HandleWrite leaves in flight after the pop: the next message if there is
\* one (the mutated form looks for one before the pop, and misses the second).
NextWriteLate(q) == IF Len(q) > 2 THEN <<Write(Tail(q))>> ELSE <<>>
NextWrite(q)     == IF Len(q) > 1 THEN <<Write(Tail(q))>> ELSE <<>>

\* HandleWrite without an error.
HandleWrite ==
  /\ inflight # <<>> /\ Head(inflight).ok
  /\ wire' = Append(wire, Head(inflight).m)
  /\ que' = Tail(que)
  /\ inflight' = Tail(inflight) \o NextWrite(que)
  /\ UNCHANGED <<open, failed, pushed>>

\* HandleWrite with an error: Close(); the queue is not touched (the mutated form
\* goes on with the next message).
WriteErrorGoesOn ==
  /\ inflight # <<>>
  /\ open' = FALSE /\ failed' = TRUE
  /\ que' = Tail(que)
  /\ inflight' = IF Len(que) > 1 THEN <<[m |-> que[2], ok |-> TRUE]>> ELSE <<>>
  /\ UNCHANGED <<pushed, wire>>

HandleWriteError ==
  /\ inflight # <<>>
  /\ open' = FALSE /\ failed' = TRUE
  /\ inflight' = Tail(inflight)
  /\ UNCHANGED <<que, pushed, wire>>

\* Close() from a read error, the timer or an invalid session.
Close ==
  /\ open
  /\ open' = FALSE
  /\ UNCHANGED <<que, inflight, failed, pushed, wire>>

Next == (\E m \in Msgs : Send(m)) \/ HandleWrite \/ HandleWriteError \/ Close

Spec == Init /\ [][Next]_vars

\* Every write completes, one way or the other.
FairSpec == Spec /\ WF_vars(HandleWrite \/ HandleWriteError)
-----------------------------------------------------------------------------
Writes == [m : Msgs, ok : BOOLEAN]

TypeOK == /\ que \in Seq(Msgs) /\ Len(que) <= MaxSendQue + 1
          /\ pushed \in Seq(Msgs) /\ wire \in Seq(Msgs)
          /\ inflight \in Seq(Writes)
          /\ open \in BOOLEAN /\ failed \in BOOLEAN

\* One write at a time, of the message at the head of the queue: two would
\* interleave their bytes, and the buffer of another could be freed under it.
OneWrite ==
  /\ Len(inflight) <= 1
  /\ inflight # <<>> => que # <<>> /\ inflight[1].m = Head(que)

\* A queued message is never forgotten: the queue is being written unless a write
\* has failed, and then never again.
QueueIsServed ==
  IF failed THEN que # <<>> /\ inflight = <<>> ELSE que # <<>> => inflight # <<>>

\* What was accepted is what was written followed by what waits.
InOrder == pushed = wire \o que

\* An accepted message is written, or the connection breaks.
AcceptedIsWritten ==
  \A n \in 1..MaxSends : Len(pushed) >= n ~> Len(wire) >= n \/ failed

\* The queue is a reliable ordered channel that may break.
Chan == INSTANCE Channel WITH Limit <- MaxSendQue, put <- pushed, got <- wire, dead <- failed

ImplementsChannel == Chan!Spec
=============================================================================
