------------------------------ MODULE Channel ------------------------------
(***************************************************************************)
(* What CSession::Send promises the code that calls it: messages reach the *)
(* connection in the order in which they were accepted, none of them lost, *)
(* repeated or overtaken, until the connection fails, and none after that. *)
(* At most Limit + 1 messages wait.                                        *)
(***************************************************************************)
EXTENDS Integers, Sequences

CONSTANTS Msgs, Limit

VARIABLES put,   \* the messages accepted so far
          got,   \* the messages written to the connection so far
          dead   \* a write has failed

vars == <<put, got, dead>>

Init == put = <<>> /\ got = <<>> /\ dead = FALSE

Put(m) == /\ Len(put) - Len(got) <= Limit
          /\ put' = Append(put, m)
          /\ UNCHANGED <<got, dead>>

Get == /\ ~dead /\ Len(got) < Len(put)
       /\ got' = Append(got, put[Len(got) + 1])
       /\ UNCHANGED <<put, dead>>

Break == dead' = TRUE /\ UNCHANGED <<put, got>>

Next == (\E m \in Msgs : Put(m)) \/ Get \/ Break

Spec == Init /\ [][Next]_vars
=============================================================================
