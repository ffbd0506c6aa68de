----------------------------- MODULE LogicQueue -----------------------------
(***************************************************************************)
(* LogicSystem's queue (ChatServer/src/logic_system.cc:26-103): io threads *)
(* post requests, one worker waits on a condition variable and runs their  *)
(* callbacks, and the destructor stops it.                                 *)
(*                                                                         *)
(* The worker holds _mutex from the moment it has it until it sleeps or    *)
(* goes round its loop, callbacks included.  A poster's section is one     *)
(* step, taken when the mutex is free; its notify comes after the unlock.  *)
(* The destructor takes no mutex at all.                                   *)
(***************************************************************************)
EXTENDS Integers, Sequences

CONSTANTS Posters,                   \* io threads
          Known, Unknown, Throwing,  \* requests, by what becomes of their callback
          MaxPosts                   \* bound of the model: requests posted in all

Msgs == Known \union Unknown \union Throwing

ASSUME KindsAssumption == /\ Known \intersect Unknown = {}
                          /\ Throwing \intersect (Known \union Unknown) = {}
ASSUME MaxPostsAssumption == MaxPosts \in Nat

VARIABLES que,     \* _msg_que
          worker,  \* where DelMsg is
          poster,  \* where each io thread is in PostMsgToQue
          stop,    \* _b_stop
          dtor,    \* where the destructor is
          posted,  \* history: the requests posted
          done     \* history: the requests finished with

vars == <<que, worker, poster, stop, dtor, posted, done>>

Init == /\ que = <<>> /\ posted = <<>> /\ done = <<>>
        /\ worker = "lock"
        /\ poster = [p \in Posters |-> "out"]
        /\ stop = FALSE /\ dtor = "no"

MutexFree == worker \in {"lock", "asleep", "joined", "dead"}

\* notify_one wakes the worker if it sleeps, and is forgotten otherwise.
Notify == worker' = IF worker = "asleep" THEN "lock" ELSE worker
-----------------------------------------------------------------------------
\* A poster notifies only when its request is alone, q being the queue after the
\* push (the mutated form expects the queue before it).
TestsBeforePush(q) == Len(q) = 0
NeedsNotify(q)     == Len(q) = 1

PostMsgToQue(p, m) ==
  /\ poster[p] = "out" /\ dtor = "no" /\ MutexFree
  /\ Len(posted) < MaxPosts
  /\ que' = Append(que, m)
  /\ posted' = Append(posted, m)
  /\ poster' = IF NeedsNotify(que') THEN [poster EXCEPT ![p] = "notify"] ELSE poster
  /\ UNCHANGED <<worker, stop, dtor, done>>

NotifyOne(p) ==
  /\ poster[p] = "notify"
  /\ poster' = [poster EXCEPT ![p] = "out"]
  /\ Notify
  /\ UNCHANGED <<que, stop, dtor, posted, done>>

\* The destructor runs when the io threads have been joined
\* (AsioIOServicePool::Stop): a plain store, at any point of the worker's.
SetStop ==
  /\ dtor = "no" /\ \A p \in Posters : poster[p] = "out"
  /\ stop' = TRUE /\ dtor' = "notify"
  /\ UNCHANGED <<que, worker, poster, posted, done>>

StopNotify ==
  /\ dtor = "notify"
  /\ dtor' = "join"
  /\ Notify
  /\ UNCHANGED <<que, poster, stop, posted, done>>
-----------------------------------------------------------------------------
(* DelMsg *)

WorkerGoes(to) == worker' = to /\ UNCHANGED <<poster, stop, dtor, posted>>

\* The worker gets the mutex and evaluates the predicate of the wait, for the
\* first time or after it was woken, by a notify or for no reason.
TestPredicate ==
  /\ worker = "lock"
  /\ WorkerGoes(IF stop \/ que # <<>> THEN "check" ELSE "willSleep")
  /\ UNCHANGED <<que, done>>

\* Between the predicate and sleep it still holds the mutex, which only keeps
\* posters out.
Sleep ==
  /\ worker = "willSleep"
  /\ WorkerGoes("asleep")
  /\ UNCHANGED <<que, done>>

Spurious ==
  /\ worker = "asleep"
  /\ WorkerGoes("lock")
  /\ UNCHANGED <<que, done>>

\* A request leaves the queue when its callback has returned, or at once when
\* there is no callback for its id (the mutated form leaves it there).
FinishNoPop(to) ==
  /\ done' = Append(done, Head(que)) /\ UNCHANGED que
  /\ WorkerGoes(to)

Finish(to) ==
  /\ done' = Append(done, Head(que)) /\ que' = Tail(que)
  /\ WorkerGoes(to)

Handle ==
  /\ worker = "check" /\ ~stop
  /\ Head(que) \notin Throwing
  /\ Finish("lock")

\* A callback that throws ends the thread: the catch is outside the loop.
HandlerThrows ==
  /\ worker \in {"check", "drainOne"} /\ (worker = "check" => ~stop)
  /\ Head(que) \in Throwing
  /\ WorkerGoes("dead")
  /\ UNCHANGED <<que, done>>

\* _b_stop is set: the loop that empties the queue.
DrainTest ==
  /\ (worker = "check" /\ stop) \/ worker = "drain"
  /\ WorkerGoes(IF que = <<>> THEN "joined" ELSE "drainOne")
  /\ UNCHANGED <<que, done>>

\* It pops a request without a callback, ...
DrainUnknown ==
  /\ worker = "drainOne" /\ Head(que) \in Unknown
  /\ Finish("drain")

\* ... and calls the callback of any other, without a pop.
DrainKnown ==
  /\ worker = "drainOne" /\ Head(que) \in Known
  /\ WorkerGoes("drain")
  /\ UNCHANGED <<que, done>>

DelMsg == \/ TestPredicate \/ Sleep \/ Handle \/ HandlerThrows
          \/ DrainTest \/ DrainUnknown \/ DrainKnown

Next == \/ \E p \in Posters, m \in Msgs : PostMsgToQue(p, m)
        \/ \E p \in Posters : NotifyOne(p)
        \/ SetStop \/ StopNotify
        \/ DelMsg \/ Spurious

Spec == Init /\ [][Next]_vars

\* The threads run; no wake-up need be spurious, and nothing need be posted.
FairSpec == /\ Spec
            /\ WF_vars(DelMsg) /\ WF_vars(StopNotify)
            /\ \A p \in Posters : WF_vars(NotifyOne(p))
-----------------------------------------------------------------------------
TypeOK == /\ que \in Seq(Msgs) /\ posted \in Seq(Msgs) /\ done \in Seq(Msgs)
          /\ worker \in {"lock", "willSleep", "asleep", "check", "drain", "drainOne",
                         "joined", "dead"}
          /\ poster \in [Posters -> {"out", "notify"}]
          /\ stop \in BOOLEAN
          /\ dtor \in {"no", "notify", "join"}

\* The worker never sleeps on a request unless somebody is about to wake it, even
\* though only the first of several posters does, and after the unlock.
NoLostWakeup ==
  worker = "asleep" /\ que # <<>> => \E p \in Posters : poster[p] = "notify"

\* Requests are finished in the order of posting, none twice and none skipped.
InOrder == posted = done \o que

\* A posted request is finished, unless a callback throws or the server stops.
RequestsServed ==
  \A n \in 1..MaxPosts : Len(posted) >= n ~> Len(done) >= n \/ worker = "dead" \/ stop

\* logic_system.cc:63: when the server stops, all requests left are dealt with.
DrainHandlesAll == stop ~> que = <<>> \/ worker = "dead"
=============================================================================
