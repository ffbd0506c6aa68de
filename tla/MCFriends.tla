----------------------------- MODULE MCFriends -----------------------------
(* Two users apply to each other and accept; user 1, on the server with two
   connections to the database, also opens their chat, lists it, loads its messages and comes and goes. *)
EXTENDS Friends, TLC

CONSTANTS s1, s2, c1, c2, c3

MCPool == s1 :> {c1, c2} @@ s2 :> {c3}
MCHome == 1 :> s1 @@ 2 :> s2
MCMoves == {<<1, s1>>, <<1, None>>}
MCStored == {<<2, 1>>}
MCRequests ==
  {[op |-> "apply", from |-> 1, to |-> 2], [op |-> "auth", from |-> 2, to |-> 1],
   [op |-> "auth", from |-> 1, to |-> 2],
   [op |-> "chat", from |-> 1, to |-> 2], [op |-> "list", from |-> 1, to |-> 1],
   [op |-> "load", from |-> 1, to |-> 1], [op |-> "text", from |-> 1, to |-> 2]}

(* Pages follow each other: what comes after a page is what comes after its last
   row, and there is more exactly when that is not empty. *)
ASSUME PagesMeet ==
  \A ids \in SUBSET (1..5), last \in 0..5, size \in 1..3 :
    LET p    == Page(ids, last, size)
        rest == {i \in ids : \A r \in p.rows \cup {last} : i > r}
    IN /\ {i \in ids : i > last} = p.rows \cup rest /\ p.more = (rest # {})
       /\ Cardinality(p.rows) <= size
=============================================================================
