---------------------------- MODULE SingleLogin ----------------------------
(***************************************************************************)
(* What the login protocol of the ChatServers promises together: a user    *)
(* has one connection that is accepted, anywhere, or none.  A login that   *)
(* succeeds finds none: the earlier one has been thrown out before, and it *)
(* never takes its place in one step.  Connections may end at any time,    *)
(* those of many users at once.                                            *)
(***************************************************************************)
CONSTANTS Users, Sessions, NoSession

VARIABLE online   \* online[u]: the connection of u that is accepted, if any

Init == online = [u \in Users |-> NoSession]

Enter(u, s) == /\ online[u] = NoSession
               /\ online' = [online EXCEPT ![u] = s]

Leave(U) == online' = [u \in Users |-> IF u \in U THEN NoSession ELSE online[u]]

Next == \/ \E u \in Users, s \in Sessions : Enter(u, s)
        \/ \E U \in SUBSET Users : Leave(U)

Spec == Init /\ [][Next]_online
=============================================================================
