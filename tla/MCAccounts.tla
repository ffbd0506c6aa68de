----------------------------- MODULE MCAccounts -----------------------------
(* Two users with one name between them: both register, the first changes its
   password and logs in with either. *)
EXTENDS Accounts

CONSTANTS n1, n2, m1, m2, p1, p2

MCForms ==
  {[op |-> "register", name |-> n1, mail |-> m1, pwd |-> p1],
   [op |-> "register", name |-> n1, mail |-> m2, pwd |-> p1],
   [op |-> "register", name |-> n2, mail |-> m1, pwd |-> p2],
   [op |-> "reset", name |-> n1, mail |-> m1, pwd |-> p2],
   [op |-> "login", name |-> n1, mail |-> m1, pwd |-> p1],
   [op |-> "login", name |-> n1, mail |-> m1, pwd |-> p2]}
=============================================================================
